---- MODULE Spec2Model ----
(***************************************************************************)
(* frictionless-synth: the generator-configuration compiler and its        *)
(* execution model (src/frictionless_synth/generators.py, config.py).      *)
(*                                                                         *)
(* Spec      one Python process: RandState values are constructed,         *)
(*           configuration nodes are built into generator closures and the *)
(*           closures are invoked against RandState values.                *)
(* SpecType  the pure function is_subset_type applied to type descriptors. *)
(* SpecDoc   one run: a raw document is parsed by parse_gencfg, the node   *)
(*           is built and the closure is invoked against one RandState.    *)
(***************************************************************************)
EXTENDS Integers, Sequences, FiniteSets, TLC

VARIABLES
    rngs,    \* heap of random.Random objects: <<[seed, pos]>>; rngs[1] is the class default
    sets,    \* heap of set objects used as RandState.seen; sets[1] is the class default
    ctxs,    \* the RandState values constructed so far
    gens,    \* the generator closures built so far
    calls,   \* log of the generator invocations made so far
    cap,     \* the max_unique_attempts this process passes to every RandState
    seed,    \* the seed this process passes to Random(seed); the unseeded class
             \* default Random() is given the same stream
    ta,      \* SpecType: first argument of the last is_subset_type call
    tb,      \* SpecType: second argument
    tres,    \* SpecType: its outcome
    doc,     \* SpecDoc: the raw configuration document handed to parse_gencfg
    pres,    \* SpecDoc: the outcome of parse_gencfg(doc)
    dgen,    \* SpecDoc: the generator closure built from the parsed node
    dprob    \* SpecDoc: the default_maybe_prob of the RandState, in halves

docVars == <<doc, pres, dgen, dprob>>

vars == <<rngs, sets, ctxs, gens, calls, cap, seed, ta, tb, tres, docVars>>

(***************************************************************************)
(* Bounds of the model.                                                    *)
(***************************************************************************)
DrawRange == 2          \* an RNG draw is a number in 0 .. DrawRange-1
TapeLen == 2            \* period of the modelled RNG stream
MaxUniqueAttempts == 2  \* largest RandState.max_unique_attempts constructed
MaxSize == 9            \* stands for sys.maxsize: above every bound a document configures
MaxCtx == 2             \* RandState values constructed
MaxGens == 2            \* generator closures built
MaxCalls == 2           \* generator invocations

(***************************************************************************)
(* Values a generator returns.  One record shape for all of them, so that  *)
(* a seen set may hold strings, integers, None and tuples together as a    *)
(* Python set does.                                                        *)
(***************************************************************************)
VStr(w) == [t |-> "str", s |-> w, n |-> 0, items |-> <<>>]
VInt(i) == [t |-> "int", s |-> "", n |-> i, items |-> <<>>]
VNone == [t |-> "none", s |-> "", n |-> 0, items |-> <<>>]
VTuple(xs) == [t |-> "tuple", s |-> "", n |-> 0, items |-> xs]
VBool(b) == [t |-> "bool", s |-> "", n |-> IF b THEN 1 ELSE 0, items |-> <<>>]
\* an instance of a models.py class t, its fields in declaration order
VRec(t, fields) == [t |-> t, s |-> "", n |-> 0, items |-> fields]

\* faker_wordlist(locale): the vocabulary provider's word list
Words == <<"amet", "sit">>

(***************************************************************************)
(* Strings.  The words of the vocabulary are lower-case, so str.lower()    *)
(* leaves them as they are; str.title() and str.upper() are given per      *)
(* word.                                                                   *)
(***************************************************************************)
Title(w) == CASE w = "amet" -> "Amet" [] w = "sit" -> "Sit"
Upper(w) == CASE w = "amet" -> "AMET" [] w = "sit" -> "SIT"

\* sep.join(ws)
RECURSIVE Join(_, _)
Join(sep, ws) ==
    IF Len(ws) = 0 THEN ""
    ELSE IF Len(ws) = 1 THEN ws[1]
    ELSE ws[1] \o sep \o Join(sep, Tail(ws))

\* the joiners, applied to a non-empty sequence of words
join_sentence(ws) == Join(" ", <<Title(ws[1])>> \o Tail(ws)) \o "."
join_camel_case(ws) == ws[1] \o Join("", [i \in DOMAIN Tail(ws) |-> Title(Tail(ws)[i])])
join_snake_case(ws) == Join("_", ws)
join_kebab_case(ws) == Join("-", ws)
\* join_snake_case(words).upper(): "_" is its own upper case
join_snake_case_caps(ws) == Join("_", [i \in DOMAIN ws |-> Upper(ws[i])])

Digits == <<"0", "1", "2", "3", "4", "5", "6", "7", "8", "9">>

RECURSIVE NatToStr(_)
NatToStr(n) == IF n < 10 THEN Digits[n + 1] ELSE NatToStr(n \div 10) \o Digits[(n % 10) + 1]

\* str(n) of an int
str_int(n) == IF n < 0 THEN "-" \o NatToStr(0 - n) ELSE NatToStr(n)

\* str(x) of a float x = h/2, a whole number of halves
str_float(h) ==
    LET a == IF h < 0 THEN 0 - h ELSE h
    IN  (IF h < 0 THEN "-" ELSE "") \o NatToStr(a \div 2)
        \o (IF a % 2 = 0 THEN ".0" ELSE ".5")

\* string.ascii_lowercase
ascii_lowercase ==
    <<"a", "b", "c", "d", "e", "f", "g", "h", "i", "j", "k", "l", "m",
      "n", "o", "p", "q", "r", "s", "t", "u", "v", "w", "x", "y", "z">>

(***************************************************************************)
(* random.Random.  Random(seed) is a deterministic stream of draws; the    *)
(* stream of a seed is the seed's digits in base DrawRange, repeated, so   *)
(* every sequence of TapeLen draws is the stream of some seed.             *)
(***************************************************************************)
RECURSIVE Pow(_, _)
Pow(b, e) == IF e = 0 THEN 1 ELSE b * Pow(b, e - 1)

Seeds == 0 .. (Pow(DrawRange, TapeLen) - 1)

RandomNew(x) == [seed |-> x, pos |-> 0]

\* the next raw draw of an RNG object and the object's state after it
RngDraw(rng) == (rng.seed \div Pow(DrawRange, rng.pos)) % DrawRange
RngStep(rng) == [rng EXCEPT !.pos = (rng.pos + 1) % TapeLen]

\* rnd.randint(a, b), a <= b
randint_past_max(rng, a, b) == a + 1 + (RngDraw(rng) % (b - a + 1))
randint(rng, a, b) == a + (RngDraw(rng) % (b - a + 1))
\* rnd.uniform(a, b) = a + (b - a) * random() for ints a and b, in halves:
\* random() is taken to its first binary place, 0.0 or 0.5
uniform(rng, a, b) == 2 * a + (b - a) * (RngDraw(rng) % 2)
\* rnd.choice(seq): an index into a non-empty sequence
choice_index(rng, n) == (RngDraw(rng) % n) + 1
\* rnd.random() < prob, prob = num/den
random_le(rng, num, den) == RngDraw(rng) * den <= DrawRange * num
random_lt(rng, num, den) == RngDraw(rng) * den < DrawRange * num

(***************************************************************************)
(* Configuration nodes (config.py).  One record shape for every variant:   *)
(*   type      the discriminator                                           *)
(*   children  the child / children                                        *)
(*   lo, hi    Integer: min, max.  Batch: size (min, max)                  *)
(*   ranged    Batch: size is a (min, max) tuple rather than an int        *)
(*   unique    Seq, Batch: the unique flag                                 *)
(*   num, den  Maybe: prob = num / den                                     *)
(***************************************************************************)
Node(type, children, lo, hi, ranged, unique, num, den) ==
    [type |-> type, children |-> children, lo |-> lo, hi |-> hi,
     ranged |-> ranged, unique |-> unique, num |-> num, den |-> den]

Word == Node("word", <<>>, 0, 0, FALSE, FALSE, 0, 1)
Integer(min, max) == Node("integer", <<>>, min, max, FALSE, FALSE, 0, 1)
Maybe(child, num, den) == Node("maybe", <<child>>, 0, 0, FALSE, FALSE, num, den)
Choice(children) == Node("choice", children, 0, 0, FALSE, FALSE, 0, 1)
SeqCfg(children, unique) == Node("seq", children, 0, 0, FALSE, unique, 0, 1)
Batch(child, size, unique) == Node("batch", <<child>>, size, size, FALSE, unique, 0, 1)
BatchRange(child, min, max, unique) == Node("batch", <<child>>, min, max, TRUE, unique, 0, 1)
Unique(child) == Node("unique", <<child>>, 0, 0, FALSE, FALSE, 0, 1)

\* the name generators: n_words is lo (an int) or (lo, hi) when ranged
NameCfg(type, lo, hi, ranged) == Node(type, <<>>, lo, hi, ranged, FALSE, 0, 1)
MissingValueName == Node("missing_value_name", <<>>, 0, 0, FALSE, FALSE, 0, 1)

(***************************************************************************)
(* Generator closures of generators.py that no configuration variant names *)
(* directly; build() composes them.  A probability is a pair <<num, den>>. *)
(***************************************************************************)
Boolean(prob) == Node("boolean", <<>>, 0, 0, FALSE, FALSE, prob[1], prob[2])
Interval(start, size) == Node("interval", <<start, size>>, 0, 0, FALSE, FALSE, 0, 1)
JoinedWords(joiner, lo, hi, ranged) ==
    [type |-> "joined_words", children |-> <<>>, lo |-> lo, hi |-> hi, ranged |-> ranged,
     unique |-> FALSE, num |-> 0, den |-> 1, joiner |-> joiner]
MissingValue == Node("missing_value", <<>>, 0, 0, FALSE, FALSE, 0, 1)
\* mapper(gen, lambda x: group_name + "_" + x)
Prefixed(child, group_name) ==
    [type |-> "prefixed", children |-> <<child>>, lo |-> 0, hi |-> 0, ranged |-> FALSE,
     unique |-> FALSE, num |-> 0, den |-> 1, prefix |-> group_name]
FieldTypeGen(type, children) == Node(type, children, 0, 0, FALSE, FALSE, 0, 1)
EnumIntegerGen(children, no_label_prob) ==
    Node("enum_integer_field_type_gen", children, 0, 0, FALSE, FALSE,
         no_label_prob[1], no_label_prob[2])
MetaGroupGen(children, n_range) ==
    Node("meta_group_gen", children, n_range[1], n_range[2], TRUE, FALSE, 0, 1)
FieldGroupGen(meta_group, type) ==
    Node("field_group_gen", <<meta_group, type>>, 0, 0, FALSE, FALSE, 0, 1)
SeqFlat(children) == Node("seq_flat", children, 0, 0, FALSE, FALSE, 0, 1)
TableSchemaGen(fields, missingValues, n_rows) ==
    Node("table_schema_gen", <<fields, missingValues, n_rows>>, 0, 0, FALSE, FALSE, 0, 1)
TableResourceGen(name, description, schema) ==
    Node("table_resource_gen", <<name, description, schema>>, 0, 0, FALSE, FALSE, 0, 1)

\* 1 - prob
OneMinus(prob) == <<prob[2] - prob[1], prob[2]>>

(***************************************************************************)
(* Executing a generator.  A generator closure is a function of RandState; *)
(* an exception leaves the state as mutated so far.  The interpreter       *)
(* threads                                                                 *)
(*   rng   the state of state.rnd                                          *)
(*   seen  the contents of state.seen                                      *)
(*   loc   the private sets of the closure's local_unique wrappers, keyed  *)
(*         by the path of the wrapped child followed by 0                  *)
(*   max   state.max_unique_attempts                                       *)
(*   ev    what happened, in order (a record of the execution)             *)
(***************************************************************************)
Ev(e, p, v, n, pre, post) == [e |-> e, p |-> p, v |-> v, n |-> n, pre |-> pre, post |-> post]

Ret(v, S) == [ok |-> TRUE, err |-> "", v |-> v, S |-> S]
Raise(err, S) == [ok |-> FALSE, err |-> err, v |-> VNone, S |-> S]
Log(S, ev) == [S EXCEPT !.ev = Append(@, ev)]
Consume(S) == [S EXCEPT !.rng = RngStep(@)]

\* range(state.max_unique_attempts): the number of attempts a uniqueness loop makes
AttemptsOneMore(S) == S.max + 1
Attempts(S) == S.max

\* state.seen.add(value)
SeenAddOmitted(seen, v) == seen
SeenAddReplacing(seen, v) == {v}
SeenAdd(seen, v) == seen \cup {v}

\* seen.add(value) on a local_unique wrapper's private set
LocalAddOmitted(seen, v) == seen
LocalAdd(seen, v) == seen \cup {v}

RECURSIVE Eval(_, _, _)
RECURSIVE Run(_, _, _)

word_fn(node, path, S) ==
    Ret(VStr(Words[choice_index(S.rng, Len(Words))]), Consume(S))

\* randint raises ValueError on an empty range
integer_fn(node, path, S) ==
    IF node.lo > node.hi THEN Raise("ValueError", S)
    ELSE Ret(VInt(randint(S.rng, node.lo, node.hi)), Consume(S))

maybe_fn_catching(node, path, S) ==
    IF random_lt(S.rng, node.num, node.den)
    THEN LET r == Eval(node.children[1], path \o <<1>>, Consume(S))
         IN  IF r.ok THEN r ELSE Ret(VNone, r.S)
    ELSE Ret(VNone, Consume(S))

maybe_fn(node, path, S) ==
    IF random_lt(S.rng, node.num, node.den)
    THEN Eval(node.children[1], path \o <<1>>, Consume(S))
    ELSE Ret(VNone, Consume(S))

choice_fn(node, path, S) ==
    IF Len(node.children) = 0
    THEN Raise("IndexError", S)
    ELSE LET i == choice_index(S.rng, Len(node.children))
         IN  Eval(node.children[i], path \o <<i>>, Consume(S))

\* the closure local_unique(gen) returns; i attempts have been made
RECURSIVE local_unique_fn(_, _, _, _)
local_unique_fn(child, cpath, S, i) ==
    IF i >= Attempts(S)
    THEN Raise("RuntimeError", Log(S, Ev("lraise", cpath, VNone, i,
                                        S.loc[cpath \o <<0>>], S.loc[cpath \o <<0>>])))
    ELSE LET r == Eval(child, cpath, S)
             key == cpath \o <<0>>
         IN  IF ~r.ok THEN r
             ELSE IF r.v \notin r.S.loc[key]
             THEN LET S2 == [r.S EXCEPT !.loc[key] = LocalAdd(@, r.v)]
                  IN  Ret(r.v, Log(S2, Ev("lret", cpath, r.v, i + 1,
                                          r.S.loc[key], S2.loc[key])))
             ELSE local_unique_fn(child, cpath, r.S, i + 1)

\* the closure unique(gen) returns; i attempts have been made
RECURSIVE unique_fn(_, _, _, _)
unique_fn_forgetting(node, path, S, i) ==
    IF i >= Attempts(S)
    THEN Raise("RuntimeError", Log([S EXCEPT !.seen = {}],
                                   Ev("uraise", path, VNone, i, S.seen, {})))
    ELSE LET r == Eval(node.children[1], path \o <<1>>, S)
         IN  IF ~r.ok THEN r
             ELSE IF r.v \notin r.S.seen
             THEN LET S2 == [r.S EXCEPT !.seen = SeenAdd(@, r.v)]
                  IN  Ret(r.v, Log(S2, Ev("uret", path, r.v, i + 1, r.S.seen, S2.seen)))
             ELSE unique_fn(node, path, r.S, i + 1)

unique_fn(node, path, S, i) ==
    IF i >= Attempts(S)
    THEN Raise("RuntimeError", Log(S, Ev("uraise", path, VNone, i, S.seen, S.seen)))
    ELSE LET r == Eval(node.children[1], path \o <<1>>, S)
         IN  IF ~r.ok THEN r
             ELSE IF r.v \notin r.S.seen
             THEN LET S2 == [r.S EXCEPT !.seen = SeenAdd(@, r.v)]
                  IN  Ret(r.v, Log(S2, Ev("uret", path, r.v, i + 1, r.S.seen, S2.seen)))
             ELSE unique_fn(node, path, r.S, i + 1)

\* tuple([g(state) for g in gen]) from child i on, acc holding the earlier values
RECURSIVE seq_fn(_, _, _, _, _)
seq_fn_prepending(node, path, S, i, acc) ==
    IF i > Len(node.children)
    THEN Ret(VTuple(acc), S)
    ELSE LET r == IF node.unique
                  THEN local_unique_fn(node.children[i], path \o <<i>>, S, 0)
                  ELSE Eval(node.children[i], path \o <<i>>, S)
         IN  IF ~r.ok THEN r
             ELSE seq_fn(node, path, r.S, i + 1, <<r.v>> \o acc)

seq_fn(node, path, S, i, acc) ==
    IF i > Len(node.children)
    THEN Ret(VTuple(acc), S)
    ELSE LET r == IF node.unique
                  THEN local_unique_fn(node.children[i], path \o <<i>>, S, 0)
                  ELSE Eval(node.children[i], path \o <<i>>, S)
         IN  IF ~r.ok THEN r
             ELSE seq_fn(node, path, r.S, i + 1, Append(acc, r.v))

\* tuple([local_gen(state) for _ in range(sz)]), acc holding the earlier values
RECURSIVE batch_items(_, _, _, _, _)
batch_items(node, path, S, sz, acc) ==
    IF Len(acc) >= sz
    THEN Ret(VTuple(acc), Log(S, Ev("bret", path, VTuple(acc), sz, {}, {})))
    ELSE LET r == IF node.unique
                  THEN local_unique_fn(node.children[1], path \o <<1>>, S, 0)
                  ELSE Eval(node.children[1], path \o <<1>>, S)
         IN  IF ~r.ok THEN r
             ELSE batch_items(node, path, r.S, sz, Append(acc, r.v))

\* batch with a (min, max) size taken as the fixed size min
batch_fn_ignoring_range(node, path, S) == batch_items(node, path, S, node.lo, <<>>)

batch_fn(node, path, S) ==
    IF node.ranged /\ node.lo > node.hi THEN Raise("ValueError", S)
    ELSE IF node.ranged
    THEN batch_items(node, path, Consume(S), randint(S.rng, node.lo, node.hi), <<>>)
    ELSE batch_items(node, path, S, node.lo, <<>>)

\* state.rnd.random() < prob
boolean_fn(node, path, S) ==
    Ret(VBool(random_lt(S.rng, node.num, node.den)), Consume(S))

\* mapper(batch(word(), sz, unique=False), joiner); join_sentence and
\* join_camel_case read words[0]
joined_words_fn(node, path, S) ==
    IF node.ranged /\ node.lo > node.hi THEN Raise("ValueError", S)
    ELSE LET sz == IF node.ranged THEN randint(S.rng, node.lo, node.hi) ELSE node.lo
             r == Eval(Batch(Word, sz, FALSE), path \o <<1>>,
                       IF node.ranged THEN Consume(S) ELSE S)
             ws == [i \in DOMAIN r.v.items |-> r.v.items[i].s]
         IN  IF ~r.ok THEN r
             ELSE IF Len(ws) = 0 /\ node.joiner \in {"sentence", "camel"}
             THEN Raise("IndexError", r.S)
             ELSE Ret(VStr(CASE node.joiner = "sentence" -> join_sentence(ws)
                             [] node.joiner = "camel" -> join_camel_case(ws)
                             [] node.joiner = "snake" -> join_snake_case(ws)
                             [] node.joiner = "kebab" -> join_kebab_case(ws)
                             [] node.joiner = "snake_caps" -> join_snake_case_caps(ws)),
                      r.S)

\* missing_value(): style is None, so state.default_missing_style decides
missing_value_fn(node, path, S) ==
    CASE S.style = "SPSS" ->
             LET r == Eval(Integer(-1000, -1), path \o <<1>>, S)
             IN  Ret(VStr(str_int(r.v.n)), r.S)
      [] S.style = "SATA" ->
             Ret(VStr("." \o ascii_lowercase[choice_index(S.rng, Len(ascii_lowercase))]),
                 Consume(S))
      [] S.style = "UNDERSCORE" ->
             LET r == Eval(JoinedWords("snake_caps", 1, 3, TRUE), path \o <<1>>, S)
             IN  IF ~r.ok THEN r ELSE Ret(VStr("_" \o r.v.s \o "_"), r.S)

\* min = start(state); (min, min + size(state))
interval_fn(node, path, S) ==
    LET rs == Eval(node.children[1], path \o <<1>>, S)
    IN  IF ~rs.ok THEN rs
        ELSE LET rz == Eval(node.children[2], path \o <<2>>, rs.S)
             IN  IF ~rz.ok THEN rz
                 ELSE Ret(VTuple(<<rs.v, VInt(rs.v.n + rz.v.n)>>), rz.S)

\* map_fn(gen(state)) with map_fn = lambda x: group_name + "_" + x
prefixed_fn_bare(node, path, S) == Eval(node.children[1], path \o <<1>>, S)

prefixed_fn(node, path, S) ==
    LET r == Eval(node.children[1], path \o <<1>>, S)
    IN  IF ~r.ok THEN r ELSE Ret(VStr(node.prefix \o "_" \o r.v.s), r.S)

\* the children order[1], order[2], ... invoked in that order; acc holds the
\* values of those already invoked
RECURSIVE call_in_order(_, _, _, _, _)
call_in_order(node, path, S, order, acc) ==
    IF Len(acc) >= Len(order) THEN Ret(VTuple(acc), S)
    ELSE LET c == order[Len(acc) + 1]
             r == Eval(node.children[c], path \o <<c>>, S)
         IN  IF ~r.ok THEN r
             ELSE call_in_order(node, path, r.S, order, Append(acc, r.v))

\* min(l1, l2) if (l1 is not None and l2 is not None) else l1
lower_bound_unordered(l1, l2) == l1
lower_bound(l1, l2) ==
    IF l1 # VNone /\ l2 # VNone THEN (IF l2.n < l1.n THEN l2 ELSE l1) ELSE l1

\* max(l1, l2) if (l1 is not None and l2 is not None) else l2
upper_bound(l1, l2) ==
    IF l1 # VNone /\ l2 # VNone THEN (IF l2.n > l1.n THEN l2 ELSE l1) ELSE l2

\* children: required, unique, minimum, maximum, missingValues
integer_field_type_fn(node, path, S) ==
    LET r == call_in_order(node, path, S, <<3, 4, 1, 2, 5>>, <<>>)
        x == r.v.items
    IN  IF ~r.ok THEN r
        ELSE Ret(VRec("IntegerFieldType",
                      <<x[3], x[4], lower_bound(x[1], x[2]), upper_bound(x[1], x[2]), x[5]>>),
                 r.S)

\* children: required, unique, minimum, maximum, missingValues
number_field_type_fn(node, path, S) ==
    LET r == call_in_order(node, path, S, <<1, 2, 3, 4, 5>>, <<>>)
        x == r.v.items
    IN  IF ~r.ok THEN r
        ELSE Ret(VRec("NumberFieldType", <<x[1], x[2], x[3], x[4], x[5]>>), r.S)

\* children: required, unique, minLength, maxLength, missingValues; pattern
\* is the default lambda _: None
string_field_type_fn(node, path, S) ==
    LET r == call_in_order(node, path, S, <<3, 4, 1, 2, 5>>, <<>>)
        x == r.v.items
    IN  IF ~r.ok THEN r
        ELSE Ret(VRec("StringFieldType",
                      <<x[3], x[4], lower_bound(x[1], x[2]), upper_bound(x[1], x[2]),
                        VNone, x[5]>>),
                 r.S)

\* children: levels, required, unique, ordered, missingValues
enum_string_field_type_fn(node, path, S) ==
    LET r == call_in_order(node, path, S, <<1, 2, 3, 4, 5>>, <<>>)
        x == r.v.items
    IN  IF ~r.ok THEN r
        ELSE Ret(VRec("EnumStringFieldType", <<x[1], x[2], x[3], x[4], x[5]>>), r.S)

\* range(a, b)
range_values(a, b) == [i \in 1 .. (IF b > a THEN b - a ELSE 0) |-> VInt(a + i - 1)]

\* tuple([EnumIntegerLevel(value, label=local_label(state)) for value in values]),
\* acc holding the earlier levels
RECURSIVE labelled_levels(_, _, _, _, _)
labelled_levels_repeating(node, path, S, values, acc) ==
    IF Len(acc) >= Len(values) THEN Ret(VTuple(acc), S)
    ELSE LET r == Eval(node.children[2], path \o <<2>>, S)
         IN  IF ~r.ok THEN r
             ELSE labelled_levels(node, path, r.S, values,
                      Append(acc, VRec("EnumIntegerLevel", <<values[Len(acc) + 1], r.v>>)))

labelled_levels(node, path, S, values, acc) ==
    IF Len(acc) >= Len(values) THEN Ret(VTuple(acc), S)
    ELSE LET r == local_unique_fn(node.children[2], path \o <<2>>, S, 0)
         IN  IF ~r.ok THEN r
             ELSE labelled_levels(node, path, r.S, values,
                      Append(acc, VRec("EnumIntegerLevel", <<values[Len(acc) + 1], r.v>>)))

\* children: value_range, label_name, required, unique, ordered, missingValues;
\* num/den is no_label_prob
enum_integer_field_type_fn(node, path, S) ==
    LET rmv == Eval(node.children[6], path \o <<6>>, S)
    IN  IF ~rmv.ok THEN rmv
        ELSE
        LET rvr == Eval(node.children[1], path \o <<1>>, rmv.S)
        IN  IF ~rvr.ok THEN rvr
            ELSE
            LET values == range_values(rvr.v.items[1].n, rvr.v.items[2].n) \o rmv.v.items
                rl == IF random_lt(rvr.S.rng, node.num, node.den)
                      THEN Ret(VTuple([i \in DOMAIN values |->
                                          VRec("EnumIntegerLevel", <<values[i], VNone>>)]),
                               Consume(rvr.S))
                      ELSE labelled_levels(node, path, Consume(rvr.S), values, <<>>)
            IN  IF ~rl.ok THEN rl
                ELSE
                LET rr == call_in_order(node, path, rl.S, <<3, 4, 5>>, <<>>)
                    x == rr.v.items
                IN  IF ~rr.ok THEN rr
                    ELSE Ret(VRec("EnumIntegerFieldType",
                                  <<rl.v, x[1], x[2], x[3], rmv.v>>), rr.S)

\* batch(field_meta(name_gen, title_gen, description_gen), n_range): sz
\* entries, acc holding the earlier ones.  children: group_name, the mapper
\* over field_name, title, description
RECURSIVE meta_fields(_, _, _, _, _, _)
meta_fields(node, path, S, group_name, sz, acc) ==
    IF Len(acc) >= sz THEN Ret(VTuple(acc), S)
    ELSE LET rn == local_unique_fn([node.children[2] EXCEPT !.prefix = group_name],
                                   path \o <<2>>, S, 0)
         IN  IF ~rn.ok THEN rn
             ELSE
             LET rt == Eval(node.children[3], path \o <<3>>, rn.S)
             IN  IF ~rt.ok THEN rt
                 ELSE
                 LET rd == Eval(node.children[4], path \o <<4>>, rt.S)
                 IN  IF ~rd.ok THEN rd
                     ELSE meta_fields(node, path, rd.S, group_name, sz,
                              Append(acc, VRec("FieldMeta", <<rn.v, rt.v, rd.v>>)))

\* the closure MetaGroup.build returns: every invocation wraps the mapper in
\* a new local_unique, so the private set starts empty
meta_group_fn(node, path, S) ==
    LET rg == Eval(node.children[1], path \o <<1>>, S)
    IN  IF ~rg.ok THEN rg
        ELSE IF node.lo > node.hi THEN Raise("ValueError", rg.S)
        ELSE meta_fields(node, path,
                         [Consume(rg.S) EXCEPT !.loc[path \o <<2, 0>>] = {}],
                         rg.v.s, randint(rg.S.rng, node.lo, node.hi), <<>>)

\* tuple(Field(meta=met, type=type(state)) for met in meta_group(state))
RECURSIVE typed_fields(_, _, _, _, _)
typed_fields_sharing(node, path, S, metas, acc) ==
    LET r == Eval(node.children[2], path \o <<2>>, S)
    IN  IF ~r.ok THEN r
        ELSE Ret(VTuple([k \in DOMAIN metas |-> VRec("Field", <<metas[k], r.v>>)]), r.S)

typed_fields(node, path, S, metas, acc) ==
    IF Len(acc) >= Len(metas) THEN Ret(VTuple(acc), S)
    ELSE LET r == Eval(node.children[2], path \o <<2>>, S)
         IN  IF ~r.ok THEN r
             ELSE typed_fields(node, path, r.S, metas,
                      Append(acc, VRec("Field", <<metas[Len(acc) + 1], r.v>>)))

field_group_fn(node, path, S) ==
    LET rm == Eval(node.children[1], path \o <<1>>, S)
    IN  IF ~rm.ok THEN rm ELSE typed_fields(node, path, rm.S, rm.v.items, <<>>)

\* tuple([item for sublist in gen(state) for item in sublist])
RECURSIVE flatten(_)
flatten(xs) == IF xs = <<>> THEN <<>> ELSE Head(xs).items \o flatten(Tail(xs))

seq_flat_fn(node, path, S) ==
    LET r == seq_fn(node, path, S, 1, <<>>)
    IN  IF ~r.ok THEN r ELSE Ret(VTuple(flatten(r.v.items)), r.S)

\* children: fields, missingValues, n_rows
table_schema_fn(node, path, S) ==
    LET r == call_in_order(node, path, S, <<1, 2, 3>>, <<>>)
        x == r.v.items
    IN  IF ~r.ok THEN r
        ELSE Ret(VRec("TableSchema", <<x[1], x[3], x[2]>>), r.S)

\* the value a level of an enum field type holds: EnumIntegerLevel.value, or
\* the level itself when it is a str
LevelValue(level) == IF level.t = "EnumIntegerLevel" THEN level.items[1] ELSE level

\* str(x) of an int or a str
str_of(x) == IF x.t = "int" THEN str_int(x.n) ELSE x.s

\* choice([lambda _: l.value for l in levels])(state): rnd.choice picks one
\* of the lambdas, and every lambda reads the comprehension's variable l,
\* which is the last level by the time any of them runs
enum_cell(levels, path, S) ==
    IF Len(levels) = 0 THEN Raise("IndexError", S)
    ELSE LET cell == VStr(str_of(LevelValue(levels[Len(levels)])))
         IN  Ret(cell, Log(Consume(S), Ev("pick", path, cell,
                                          choice_index(S.rng, Len(levels)), {}, {})))

\* minimum = 0 if minimum is None else minimum
minimum_or_default(bound) == IF bound = VNone THEN 0 ELSE bound.n
\* maximum = sys.maxsize if maximum is None else maximum
maximum_or_default(bound) == IF bound = VNone THEN MaxSize ELSE bound.n

\* field_data(field)(state): one cell of a column of the given field type
field_data(field, path, S) ==
    CASE field.t = "IntegerFieldType" ->
             LET minimum == minimum_or_default(field.items[3])
                 maximum == maximum_or_default(field.items[4])
             IN  IF minimum > maximum THEN Raise("ValueError", S)
                 ELSE Ret(VStr(str_int(randint(S.rng, minimum, maximum))), Consume(S))
      [] field.t = "NumberFieldType" ->
             Ret(VStr(str_float(uniform(S.rng, minimum_or_default(field.items[3]),
                                        maximum_or_default(field.items[4])))),
                 Consume(S))
      [] field.t = "StringFieldType" -> word_fn(field, path, S)
      [] field.t \in {"EnumIntegerFieldType", "EnumStringFieldType"} ->
             enum_cell(field.items[1].items, path, S)

\* dict(pairs): a key keeps the place of its first pair and the value of its last
RECURSIVE dict(_, _)
dict(pairs, acc) ==
    IF pairs = <<>> THEN VRec("dict", acc)
    ELSE LET key == Head(pairs)[1]
             at == {k \in DOMAIN acc : acc[k].items[1] = key}
             entry == VTuple(<<key, Head(pairs)[2]>>)
         IN  dict(Tail(pairs),
                  IF at = {} THEN Append(acc, entry)
                  ELSE [k \in DOMAIN acc |-> IF k \in at THEN entry ELSE acc[k]])

\* zip(xs, ys)
zip(xs, ys) ==
    [k \in 1 .. (IF Len(xs) < Len(ys) THEN Len(xs) ELSE Len(ys)) |-> <<xs[k], ys[k]>>]

\* seq(tuple(field_data(f.type) for f in schema.fields))(state): the cells of
\* one row, acc holding the earlier ones
RECURSIVE row_cells(_, _, _, _)
row_cells(fields, path, S, acc) ==
    IF Len(acc) >= Len(fields) THEN Ret(VTuple(acc), S)
    ELSE LET r == field_data(fields[Len(acc) + 1].items[2], path \o <<Len(acc) + 1>>, S)
         IN  IF ~r.ok THEN r ELSE row_cells(fields, path, r.S, Append(acc, r.v))

\* batch(row_gen, schema.n_rows, unique=False)(state), acc holding the earlier
\* rows; row_gen maps the cells of a row to dict(zip(column_names, r))
RECURSIVE table_rows(_, _, _, _)
table_rows(schema, path, S, acc) ==
    IF Len(acc) >= schema.items[2].n THEN Ret(VTuple(acc), S)
    ELSE LET fields == schema.items[1].items
             column_names == [k \in DOMAIN fields |-> fields[k].items[1].items[1]]
             r == row_cells(fields, path \o <<Len(acc) + 1>>, S, <<>>)
         IN  IF ~r.ok THEN r
             ELSE table_rows(schema, path, r.S,
                             Append(acc, dict(zip(column_names, r.v.items), <<>>)))

\* table_data(schema)(state)
table_data(schema, path, S) == table_rows(schema, path, S, <<>>)

\* children: name, description, schema
table_resource_fn(node, path, S) ==
    LET curr_schema == Eval(node.children[3], path \o <<3>>, S)
    IN  IF ~curr_schema.ok THEN curr_schema
        ELSE
        LET curr_table_data == table_data(curr_schema.v, path \o <<4>>, curr_schema.S)
        IN  IF ~curr_table_data.ok THEN curr_table_data
            ELSE
            LET r == call_in_order(node, path, curr_table_data.S, <<1, 2>>, <<>>)
            IN  IF ~r.ok THEN r
                ELSE Ret(VRec("TableResource",
                              <<r.v.items[1], r.v.items[2], curr_schema.v,
                                curr_table_data.v>>), r.S)

\* the outcome r of the closure at path, its return noted in the record
Returning(r, path) ==
    IF r.ok THEN [r EXCEPT !.S = Log(r.S, Ev("ret", path, r.v, 0, {}, {}))] ELSE r

\* invoking the closure built from node, which sits at path in its tree
Eval(node, path, S) ==
    CHOOSE out \in {Returning(r, path) : r \in {Run(node, path, S)}} : TRUE

Run(node, path, S) ==
    LET S1 == Log(S, Ev("call", path, VNone, 0, {}, {}))
    IN  CASE node.type = "word" -> word_fn(node, path, S1)
          [] node.type = "integer" -> integer_fn(node, path, S1)
          [] node.type = "maybe" -> maybe_fn(node, path, S1)
          [] node.type = "choice" -> choice_fn(node, path, S1)
          [] node.type = "seq" -> seq_fn(node, path, S1, 1, <<>>)
          [] node.type = "batch" -> batch_fn(node, path, S1)
          [] node.type = "unique" -> unique_fn(node, path, S1, 0)
          [] node.type = "boolean" -> boolean_fn(node, path, S1)
          [] node.type = "joined_words" -> joined_words_fn(node, path, S1)
          [] node.type = "missing_value" -> missing_value_fn(node, path, S1)
          [] node.type = "interval" -> interval_fn(node, path, S1)
          [] node.type = "prefixed" -> prefixed_fn(node, path, S1)
          [] node.type = "integer_field_type_gen" -> integer_field_type_fn(node, path, S1)
          [] node.type = "number_field_type_gen" -> number_field_type_fn(node, path, S1)
          [] node.type = "string_field_type_gen" -> string_field_type_fn(node, path, S1)
          [] node.type = "enum_string_field_type_gen" ->
                 enum_string_field_type_fn(node, path, S1)
          [] node.type = "enum_integer_field_type_gen" ->
                 enum_integer_field_type_fn(node, path, S1)
          [] node.type = "meta_group_gen" -> meta_group_fn(node, path, S1)
          [] node.type = "field_group_gen" -> field_group_fn(node, path, S1)
          [] node.type = "seq_flat" -> seq_flat_fn(node, path, S1)
          [] node.type = "table_schema_gen" -> table_schema_fn(node, path, S1)
          [] node.type = "table_resource_gen" -> table_resource_fn(node, path, S1)

(***************************************************************************)
(* The configurations the model builds.                                    *)
(***************************************************************************)
Configs == <<
    Unique(Word),
    BatchRange(Word, 1, 2, TRUE),
    Batch(Integer(5, 5), 2, TRUE),
    SeqCfg(<<Maybe(Unique(Word), 1, 2), Choice(<<Unique(Word), Integer(0, 1)>>)>>, TRUE),
    Unique(BatchRange(Unique(Word), 1, 2, FALSE)),
    Maybe(Batch(Word, 2, TRUE), 1, 1)
>>

(***************************************************************************)
(* build(): the private sets a closure allocates when it is built, one per *)
(* local_unique wrapper (Batch and Seq with unique = true).                *)
(***************************************************************************)
RECURSIVE LocalKeys(_, _)
LocalKeys(node, path) ==
    LET kids == UNION {LocalKeys(node.children[i], path \o <<i>>) : i \in DOMAIN node.children}
        own == IF node.type \in {"seq", "seq_flat", "batch"} /\ node.unique
               THEN {path \o <<i, 0>> : i \in DOMAIN node.children}
               ELSE IF node.type \in {"enum_integer_field_type_gen", "meta_group_gen"}
               THEN {path \o <<2, 0>>}
               ELSE {}
    IN  kids \cup own

BuildLocals(node) == [key \in LocalKeys(node, <<>>) |-> {}]

\* the private sets a built closure uses when it is invoked: those it captured
ClosureLocalsPerCall(gen) == BuildLocals(Configs[gen.cfg])
ClosureLocals(gen) == gen.loc

(***************************************************************************)
(* Type descriptors (typing objects): a class, typing.Union[...],          *)
(* TupleSeq[x] = typing.Tuple[x, ...], a union written A | B               *)
(* (types.UnionType) or a subscripted generic class.  One record shape:    *)
(*   k     "nom" | "union" | "tuple" | "pep604" | "alias"                  *)
(*   n     the class name of a nominal type or of a subscripted class      *)
(*   args  typing.get_args: the members of a union, in order, the element  *)
(*         type of a tuple type, or the arguments of a subscripted class   *)
(* A union has at least two members, none of them a union and no two       *)
(* equal, as typing.Union flattens and deduplicates its arguments.         *)
(***************************************************************************)
TNom(n) == [k |-> "nom", n |-> n, args |-> <<>>]
TUnion(args) == [k |-> "union", n |-> "", args |-> args]
TTuple(x) == [k |-> "tuple", n |-> "", args |-> <<x>>]
TPep604(args) == [k |-> "pep604", n |-> "", args |-> args]
TAlias(n, args) == [k |-> "alias", n |-> n, args |-> args]

\* a == b on typing objects: unions compare as sets of members
RECURSIVE PyEq(_, _)
PyEq(a, b) ==
    IF a.k \in {"union", "pep604"}
    THEN /\ b.k \in {"union", "pep604"}
         /\ \A i \in DOMAIN a.args : \E j \in DOMAIN b.args : PyEq(a.args[i], b.args[j])
         /\ \A j \in DOMAIN b.args : \E i \in DOMAIN a.args : PyEq(a.args[i], b.args[j])
    ELSE /\ a.k = b.k
         /\ CASE a.k = "nom" -> a.n = b.n
              [] a.k = "tuple" -> PyEq(a.args[1], b.args[1])
              [] a.k = "alias" ->
                     /\ a.n = b.n /\ Len(a.args) = Len(b.args)
                     /\ \A i \in DOMAIN a.args : PyEq(a.args[i], b.args[i])

\* a is b: a class is one object; typing caches subscriptions by their
\* arguments, so two subscriptions with equal arguments in the same order are
\* one object
Is(a, b) ==
    /\ a.k = b.k
    /\ a.n = b.n
    /\ Len(a.args) = Len(b.args)
    /\ \A i \in DOMAIN a.args : PyEq(a.args[i], b.args[i])

\* issubclass(a, b) for classes a and b: bool is a subclass of int, every
\* class of itself
subclass_of(a, b) == a.n = b.n \/ (a.n = "bool" /\ b.n = "int")

\* issubclass(a, b) for a class a: b may be a class or a union A | B of
\* classes; a subscripted generic as second argument raises TypeError
issubclass(a, b) ==
    IF b.k = "nom" THEN (IF subclass_of(a, b) THEN "True" ELSE "False")
    ELSE IF b.k = "pep604"
    THEN (IF \E j \in DOMAIN b.args : subclass_of(a, b.args[j]) THEN "True" ELSE "False")
    ELSE "TypeError"

RECURSIVE is_subset_type(_, _)
RECURSIVE all_subset(_, _, _)
RECURSIVE any_subset(_, _, _)

\* all(is_subset_type(x, b) for x in args[i:])
all_subset(args, b, i) ==
    IF i > Len(args) THEN "True"
    ELSE LET r == is_subset_type(args[i], b)
         IN  IF r = "True" THEN all_subset(args, b, i + 1) ELSE r

\* any(is_subset_type(a, x) for x in args[i:])
any_subset(a, args, i) ==
    IF i > Len(args) THEN "False"
    ELSE LET r == is_subset_type(a, args[i])
         IN  IF r = "False" THEN any_subset(a, args, i + 1) ELSE r

\* is_subset_type below its first test
is_subset_rest(a, b) ==
    IF a.k = "union" THEN all_subset(a.args, b, 1)
    ELSE IF b.k = "union" THEN any_subset(a, b.args, 1)
    ELSE IF a.k # "nom" THEN (IF Is(a, b) THEN "True" ELSE "False")
    ELSE issubclass(a, b)

is_subset_type_untested(a, b) == is_subset_rest(a, b)
is_subset_type(a, b) == IF Is(a, b) THEN "True" ELSE is_subset_rest(a, b)

(***************************************************************************)
(* The type descriptors the model reconciles.                              *)
(***************************************************************************)
MaxUnionArgs == 2       \* members of a union

Nominals == {TNom("int"), TNom("bool"), TNom("str")}

\* the unions of 2 .. MaxUnionArgs members drawn from S
UnionsOf(S) ==
    {TUnion(args) : args \in
        {q \in UNION {[1 .. n -> S] : n \in 2 .. MaxUnionArgs} :
            \A i, j \in DOMAIN q : i # j => ~PyEq(q[i], q[j])}}

TupleTypes == {TTuple(x) : x \in Nominals \cup UnionsOf(Nominals)}

TypeDescs ==
    Nominals \cup TupleTypes
    \cup UnionsOf(Nominals \cup {TTuple(x) : x \in Nominals}
                  \cup {TTuple(TUnion(<<TNom("int"), TNom("str")>>))})

(***************************************************************************)
(* return_type.  The outcome is [ok, t]: the property of a Choice or Seq   *)
(* without children raises ValueError, and so does the property of every   *)
(* node that reads it.                                                     *)
(***************************************************************************)
TAny == [k |-> "any", n |-> "Any", args |-> <<>>]
\* get_args(cls) of a GenCfgProxy that carries no generic argument
NoArgs == [k |-> "noargs", n |-> "", args |-> <<>>]

\* m.FieldType
FieldTypeT ==
    TPep604(<<TNom("IntegerFieldType"), TNom("EnumIntegerFieldType"),
              TNom("NumberFieldType"), TNom("StringFieldType"),
              TNom("EnumStringFieldType")>>)
\* TupleSeq[m.Field[m.FieldType]]
FieldsT == TTuple(TAlias("Field", <<FieldTypeT>>))
\* TupleSeq[m.FieldMeta]
MetasT == TTuple(TNom("FieldMeta"))

\* typing.Union[a, b]: nested unions are flattened, equal members are kept
\* once, and a union of one member is that member
UnionMembers(a) == IF a.k \in {"union", "pep604"} THEN a.args ELSE <<a>>

RECURSIVE Dedup(_, _)
Dedup(xs, acc) ==
    IF xs = <<>> THEN acc
    ELSE Dedup(Tail(xs), IF \E i \in DOMAIN acc : PyEq(acc[i], Head(xs))
                         THEN acc ELSE Append(acc, Head(xs)))

Union(a, b) ==
    LET ms == Dedup(UnionMembers(a) \o UnionMembers(b), <<>>)
    IN  IF Len(ms) = 1 THEN ms[1] ELSE TUnion(ms)

\* typing.Optional[a]
Optional(a) == Union(a, TNom("NoneType"))

RtOk(t) == [ok |-> TRUE, t |-> t]
RtRaise == [ok |-> FALSE, t |-> TNom("ValueError")]

NameTypes ==
    {"sentence", "snake_case_name", "camel_case_name", "kebab_case_name",
     "snake_case_caps_name"}

RECURSIVE return_type(_)

\* result = children[0].return_type, then Union[result, child.return_type]
\* for the other children; acc is the result before child i
RECURSIVE union_chain(_, _, _)
union_chain(children, i, acc) ==
    IF i > Len(children) THEN RtOk(acc)
    ELSE LET r == return_type(children[i])
         IN  IF ~r.ok THEN r
             ELSE union_chain(children, i + 1, IF i = 1 THEN r.t ELSE Union(acc, r.t))

return_type_maybe(cfg) ==
    LET r == return_type(cfg.children[1])
    IN  IF ~r.ok THEN r ELSE RtOk(Optional(r.t))

return_type(cfg) ==
    CASE cfg.type = "word" -> RtOk(TNom("str"))
      [] cfg.type \in NameTypes -> RtOk(TNom("str"))
      [] cfg.type = "missing_value_name" -> RtOk(TNom("str"))
      [] cfg.type = "integer" -> RtOk(TNom("int"))
      [] cfg.type = "maybe" -> return_type_maybe(cfg)
      [] cfg.type = "choice" ->
             IF Len(cfg.children) = 0 THEN RtRaise
             ELSE union_chain(cfg.children, 1, TAny)
      [] cfg.type = "seq" ->
             IF Len(cfg.children) = 0 THEN RtRaise
             ELSE LET r == union_chain(cfg.children, 1, TAny)
                  IN  IF ~r.ok THEN r ELSE RtOk(TTuple(r.t))
      [] cfg.type = "batch" ->
             LET r == return_type(cfg.children[1])
             IN  IF ~r.ok THEN r ELSE RtOk(TTuple(r.t))
      [] cfg.type = "unique" -> return_type(cfg.children[1])
      [] cfg.type = "integer_field_type" -> RtOk(TNom("IntegerFieldType"))
      [] cfg.type = "enum_integer_field_type" -> RtOk(TNom("EnumIntegerFieldType"))
      [] cfg.type = "number_field_type" -> RtOk(TNom("NumberFieldType"))
      [] cfg.type = "string_field_type" -> RtOk(TNom("StringFieldType"))
      [] cfg.type = "enum_string_field_type" -> RtOk(TNom("EnumStringFieldType"))
      [] cfg.type = "meta_group" -> RtOk(MetasT)
      [] cfg.type = "field_group" -> RtOk(FieldsT)
      [] cfg.type = "likert_field_group" -> RtOk(FieldsT)
      [] cfg.type = "table_schema" -> RtOk(TNom("TableSchema"))
      [] cfg.type = "table_resource" -> RtOk(TNom("TableResource"))

(***************************************************************************)
(* parse_gencfg.  A raw document is a record holding the fields the        *)
(* document gives; a field the document leaves out is absent from the      *)
(* record.  An int-or-pair field (size, n_words) is Fixed(n) or            *)
(* Range(a, b), a pair field is <<a, b>>, a probability is <<num, den>>,   *)
(* and the list form of TableSchema.fields is [list |-> <<...>>].  The     *)
(* outcome is [ok, err, node].  pydantic turns a ValueError raised by a    *)
(* validator into a ValidationError and lets a TypeError through.          *)
(***************************************************************************)
Fixed(n) == [ranged |-> FALSE, lo |-> n, hi |-> n]
Range(a, b) == [ranged |-> TRUE, lo |-> a, hi |-> b]

TypeMismatch == "ValidationError: Expected child return type"
NoChildren == "ValidationError: must have at least one child"
FieldRequired == "ValidationError: Field required"

NoNode == [type |-> "none"]
Ok(node) == [done |-> FALSE, ok |-> TRUE, err |-> "", node |-> node]
Fail(err) == [done |-> FALSE, ok |-> FALSE, err |-> err, node |-> NoNode]

Get(d, f, default) == IF f \in DOMAIN d THEN d[f] ELSE default

\* the outcome of validating the fields whose outcomes are rs: every field
\* is validated, a TypeError ends the parse, else the first error is reported
FirstError(rs) ==
    IF \E i \in DOMAIN rs : rs[i].err = "TypeError" THEN "TypeError"
    ELSE IF \E i \in DOMAIN rs : ~rs[i].ok
    THEN rs[CHOOSE i \in DOMAIN rs : ~rs[i].ok /\ \A j \in 1 .. (i - 1) : rs[j].ok].err
    ELSE ""

Nodes(rs) == [i \in DOMAIN rs |-> rs[i].node]

\* the validator from the point where gencfg_return_type = v.return_type has
\* been read as rt: the property is read before class_generic_type is
\* compared with Any
validated(expected, v, rt) ==
    IF ~rt.ok THEN Fail(NoChildren)
    ELSE IF expected = TAny THEN Ok(v)
    ELSE LET c == is_subset_type(rt.t, expected)
         IN  IF c = "True" THEN Ok(v)
             ELSE IF c = "False" THEN Fail(TypeMismatch)
             ELSE Fail("TypeError")

\* GenCfgProxy[expected].validate_gencfg(v)
validate_gencfg(expected, v) ==
    IF expected = NoArgs THEN Ok(v)
    ELSE CHOOSE out \in {validated(expected, v, rt) : rt \in {return_type(v)}} : TRUE

RECURSIVE parse_node(_)

\* GenCfgProxy[expected]: the root is validated as a GenCfg, then the
\* validator runs
parse_proxy(d, expected) ==
    LET r == parse_node(d)
    IN  IF ~r.ok THEN r ELSE validate_gencfg(expected, r.node)

\* the instance a lazy option of default_gencfg_field constructs
DefaultOf(tag) == parse_node([type |-> tag]).node

\* default_gencfg_field(*lazy_options): the proxy carries no generic argument
default_gencfg_field(tags) ==
    validate_gencfg(NoArgs,
        IF Len(tags) = 1 THEN DefaultOf(tags[1])
        ELSE Choice([i \in DOMAIN tags |-> DefaultOf(tags[i])]))

\* a field of type GenCfgProxy[expected] with a default
proxy_field(d, f, expected, tags) ==
    IF f \in DOMAIN d THEN parse_proxy(d[f], expected) ELSE default_gencfg_field(tags)

\* a required field of type GenCfgProxy[Any]
child_field(d) ==
    IF "child" \in DOMAIN d THEN parse_proxy(d.child, TAny) ELSE Fail(FieldRequired)

\* a required field of type TupleSeq[GenCfgProxy[Any]]
children_field(d) ==
    IF "children" \in DOMAIN d
    THEN [i \in DOMAIN d.children |-> parse_proxy(d.children[i], TAny)]
    ELSE <<Fail(FieldRequired)>>

Half == <<1, 2>>
FieldTypeTags ==
    <<"integer_field_type", "enum_integer_field_type", "number_field_type",
      "string_field_type", "enum_string_field_type">>

\* the fields the five field-type variants share
FieldTypeCommon(d, mvn) ==
    [required_prob |-> Get(d, "required_prob", Half),
     unique_prob |-> Get(d, "unique_prob", Half),
     undefined_prob |-> Get(d, "undefined_prob", Half),
     missing_value_name |-> mvn,
     missing_value_length_max |-> Get(d, "missing_value_length_max", 5)]

\* TypeAdapter(GenCfg).validate_python(d): the variant the tag names
parse_node(d) ==
    CASE d.type = "word" -> Ok(Word)
      [] d.type = "integer" -> Ok(Integer(Get(d, "min", 0), Get(d, "max", 1000)))
      [] d.type \in NameTypes ->
             LET nw == Get(d, "n_words", IF d.type = "sentence" THEN Fixed(10) ELSE Range(1, 3))
             IN  Ok(NameCfg(d.type, nw.lo, nw.hi, nw.ranged))
      [] d.type = "missing_value_name" -> Ok(MissingValueName)
      [] d.type = "maybe" ->
             LET c == child_field(d)
                 prob == Get(d, "prob", Half)
             IN  IF ~c.ok THEN c ELSE Ok(Maybe(c.node, prob[1], prob[2]))
      [] d.type = "unique" ->
             LET c == child_field(d)
             IN  IF ~c.ok THEN c ELSE Ok(Unique(c.node))
      [] d.type = "batch" ->
             LET c == child_field(d)
             IN  IF ~c.ok THEN c
                 ELSE IF "size" \notin DOMAIN d THEN Fail(FieldRequired)
                 ELSE Ok(Node("batch", <<c.node>>, d.size.lo, d.size.hi, d.size.ranged,
                              Get(d, "unique", FALSE), 0, 1))
      [] d.type = "choice" ->
             LET rs == children_field(d)
             IN  IF FirstError(rs) # "" THEN Fail(FirstError(rs)) ELSE Ok(Choice(Nodes(rs)))
      [] d.type = "seq" ->
             LET rs == children_field(d)
             IN  IF FirstError(rs) # "" THEN Fail(FirstError(rs))
                 ELSE Ok(SeqCfg(Nodes(rs), Get(d, "unique", FALSE)))
      [] d.type \in {"integer_field_type", "number_field_type"} ->
             LET mvn == proxy_field(d, "missing_value_name", TNom("str"), <<"missing_value_name">>)
             IN  IF ~mvn.ok THEN mvn
                 ELSE Ok([type |-> d.type,
                          minimum_range |-> Get(d, "minimum_range", <<0, 1000>>),
                          maximum_range |-> Get(d, "maximum_range", <<0, 1000>>),
                          common |-> FieldTypeCommon(d, mvn.node)])
      [] d.type = "string_field_type" ->
             LET mvn == proxy_field(d, "missing_value_name", TNom("str"), <<"missing_value_name">>)
             IN  IF ~mvn.ok THEN mvn
                 ELSE Ok([type |-> d.type,
                          minLength_range |-> Get(d, "minLength_range", <<0, 20>>),
                          maxLength_range |-> Get(d, "maxLength_range", <<10, 30>>),
                          common |-> FieldTypeCommon(d, mvn.node)])
      [] d.type = "enum_integer_field_type" ->
             LET rs == <<proxy_field(d, "label_name", TNom("str"), <<"snake_case_caps_name">>),
                         proxy_field(d, "missing_value_name", TNom("str"),
                                     <<"missing_value_name">>)>>
             IN  IF FirstError(rs) # "" THEN Fail(FirstError(rs))
                 ELSE Ok([type |-> d.type,
                          level_start_range |-> Get(d, "level_start_range", <<2, 10>>),
                          n_levels_range |-> Get(d, "n_levels_range", <<2, 10>>),
                          label_name |-> rs[1].node,
                          no_label_prob |-> Get(d, "no_label_prob", <<1, 5>>),
                          ordered_prob |-> Get(d, "ordered_prob", Half),
                          common |-> FieldTypeCommon(d, rs[2].node)])
      [] d.type = "enum_string_field_type" ->
             LET rs == <<proxy_field(d, "label_name", TNom("str"), <<"snake_case_caps_name">>),
                         proxy_field(d, "missing_value_name", TNom("str"),
                                     <<"missing_value_name">>)>>
             IN  IF FirstError(rs) # "" THEN Fail(FirstError(rs))
                 ELSE Ok([type |-> d.type,
                          label_name |-> rs[1].node,
                          n_levels_range |-> Get(d, "n_levels_range", <<2, 10>>),
                          ordered_prob |-> Get(d, "ordered_prob", Half),
                          common |-> FieldTypeCommon(d, rs[2].node)])
      [] d.type = "meta_group" ->
             LET rs == <<proxy_field(d, "group_name", TNom("str"), <<"camel_case_name">>),
                         proxy_field(d, "field_name", TNom("str"), <<"camel_case_name">>),
                         proxy_field(d, "title", TNom("str"), <<"sentence">>),
                         proxy_field(d, "description", TNom("str"), <<"sentence">>)>>
             IN  IF FirstError(rs) # "" THEN Fail(FirstError(rs))
                 ELSE Ok([type |-> d.type,
                          group_name |-> rs[1].node,
                          n_range |-> Get(d, "n_range", <<3, 15>>),
                          field_name |-> rs[2].node,
                          title |-> rs[3].node,
                          description |-> rs[4].node,
                          undefined_prob |-> Get(d, "undefined_prob", Half)])
      [] d.type = "field_group" ->
             LET rs == <<proxy_field(d, "group_meta", MetasT, <<"meta_group">>),
                         proxy_field(d, "field_type", FieldTypeT, FieldTypeTags)>>
             IN  IF FirstError(rs) # "" THEN Fail(FirstError(rs))
                 ELSE Ok([type |-> d.type, group_meta |-> rs[1].node,
                          field_type |-> rs[2].node])
      [] d.type = "likert_field_group" ->
             LET rs == <<proxy_field(d, "group_meta", MetasT, <<"meta_group">>),
                         proxy_field(d, "field_type", TNom("IntegerFieldType"),
                                     <<"integer_field_type">>)>>
             IN  IF FirstError(rs) # "" THEN Fail(FirstError(rs))
                 ELSE Ok([type |-> d.type, group_meta |-> rs[1].node,
                          field_type |-> rs[2].node])
      [] d.type = "table_schema" ->
             LET as_list == "fields" \in DOMAIN d /\ "list" \in DOMAIN d.fields
                 fs == IF as_list
                       THEN [i \in DOMAIN d.fields.list |->
                                parse_proxy(d.fields.list[i], FieldsT)]
                       ELSE <<proxy_field(d, "fields", FieldsT, <<"field_group">>)>>
                 rs == fs \o <<proxy_field(d, "missing_value_name", TNom("str"),
                                           <<"missing_value_name">>)>>
             IN  IF FirstError(rs) # "" THEN Fail(FirstError(rs))
                 ELSE Ok([type |-> d.type,
                          fields |-> [proxy |-> ~as_list, nodes |-> Nodes(fs)],
                          n_rows_range |-> Get(d, "n_rows_range", <<10, 1000>>),
                          missing_value_name |-> rs[Len(rs)].node,
                          missing_value_length_max |-> Get(d, "missing_value_length_max", 5),
                          undefined_prob |-> Get(d, "undefined_prob", Half)])
      [] d.type = "table_resource" ->
             LET rs == <<proxy_field(d, "name", TNom("str"), <<"kebab_case_name">>),
                         proxy_field(d, "description", TNom("str"), <<"sentence">>),
                         proxy_field(d, "table_schema", TNom("TableSchema"),
                                     <<"table_schema">>)>>
             IN  IF FirstError(rs) # "" THEN Fail(FirstError(rs))
                 ELSE Ok([type |-> d.type, name |-> rs[1].node,
                          description |-> rs[2].node, table_schema |-> rs[3].node])

parse_gencfg(raw) == parse_node(raw)

(***************************************************************************)
(* build(): the generator closure of a parsed node.                        *)
(***************************************************************************)
MaybeP(child, prob) == Maybe(child, prob[1], prob[2])

Joiner(type) ==
    CASE type = "sentence" -> "sentence"
      [] type = "snake_case_name" -> "snake"
      [] type = "camel_case_name" -> "camel"
      [] type = "kebab_case_name" -> "kebab"
      [] type = "snake_case_caps_name" -> "snake_caps"

RECURSIVE build(_)

\* gen.maybe(gen.batch(missing_value_name_gen, (0, max), unique=True),
\*           1 - undefined_prob)
missing_value_gen(missing_value_name, missing_value_length_max, undefined_prob) ==
    MaybeP(BatchRange(build(missing_value_name), 0, missing_value_length_max, TRUE),
           OneMinus(undefined_prob))

\* required, unique, (low, high), missingValues of IntegerFieldType,
\* NumberFieldType and StringFieldType
bounded_children(c, low, high) ==
    <<MaybeP(Boolean(c.required_prob), OneMinus(c.undefined_prob)),
      MaybeP(Boolean(c.unique_prob), OneMinus(c.undefined_prob)),
      MaybeP(Integer(low[1], low[2]), OneMinus(c.undefined_prob)),
      MaybeP(Integer(high[1], high[2]), OneMinus(c.undefined_prob)),
      missing_value_gen(c.missing_value_name, c.missing_value_length_max, c.undefined_prob)>>

build(cfg) ==
    CASE cfg.type \in {"word", "integer"} -> cfg
      [] cfg.type \in {"maybe", "choice", "seq", "batch", "unique"} ->
             [cfg EXCEPT !.children = [i \in DOMAIN cfg.children |-> build(cfg.children[i])]]
      [] cfg.type \in NameTypes -> JoinedWords(Joiner(cfg.type), cfg.lo, cfg.hi, cfg.ranged)
      [] cfg.type = "missing_value_name" -> MissingValue
      [] cfg.type = "integer_field_type" ->
             FieldTypeGen("integer_field_type_gen",
                          bounded_children(cfg.common, cfg.minimum_range, cfg.maximum_range))
      [] cfg.type = "number_field_type" ->
             FieldTypeGen("number_field_type_gen",
                          bounded_children(cfg.common, cfg.minimum_range, cfg.maximum_range))
      [] cfg.type = "string_field_type" ->
             FieldTypeGen("string_field_type_gen",
                          bounded_children(cfg.common, cfg.minLength_range, cfg.maxLength_range))
      [] cfg.type = "enum_integer_field_type" ->
             LET c == cfg.common
             IN  EnumIntegerGen(
                     <<Interval(Integer(cfg.level_start_range[1], cfg.level_start_range[2]),
                                Integer(cfg.n_levels_range[1], cfg.n_levels_range[2])),
                       build(cfg.label_name),
                       MaybeP(Boolean(c.required_prob), OneMinus(c.undefined_prob)),
                       MaybeP(Boolean(c.unique_prob), OneMinus(c.undefined_prob)),
                       MaybeP(Boolean(cfg.ordered_prob), OneMinus(c.undefined_prob)),
                       missing_value_gen(c.missing_value_name, c.missing_value_length_max,
                                         c.undefined_prob)>>,
                     cfg.no_label_prob)
      [] cfg.type = "enum_string_field_type" ->
             LET c == cfg.common
             IN  FieldTypeGen("enum_string_field_type_gen",
                     <<BatchRange(build(cfg.label_name), cfg.n_levels_range[1],
                                  cfg.n_levels_range[2], TRUE),
                       MaybeP(Boolean(c.required_prob), OneMinus(c.undefined_prob)),
                       MaybeP(Boolean(c.unique_prob), OneMinus(c.undefined_prob)),
                       MaybeP(Boolean(cfg.ordered_prob), OneMinus(c.undefined_prob)),
                       missing_value_gen(c.missing_value_name, c.missing_value_length_max,
                                         c.undefined_prob)>>)
      [] cfg.type = "meta_group" ->
             MetaGroupGen(<<Unique(build(cfg.group_name)),
                            Prefixed(build(cfg.field_name), ""),
                            MaybeP(build(cfg.title), OneMinus(cfg.undefined_prob)),
                            MaybeP(build(cfg.description), OneMinus(cfg.undefined_prob))>>,
                          cfg.n_range)
      [] cfg.type \in {"field_group", "likert_field_group"} ->
             FieldGroupGen(build(cfg.group_meta), build(cfg.field_type))
      [] cfg.type = "table_schema" ->
             TableSchemaGen(
                 IF cfg.fields.proxy THEN build(cfg.fields.nodes[1])
                 ELSE SeqFlat([i \in DOMAIN cfg.fields.nodes |-> build(cfg.fields.nodes[i])]),
                 missing_value_gen(cfg.missing_value_name, cfg.missing_value_length_max,
                                   cfg.undefined_prob),
                 Integer(cfg.n_rows_range[1], cfg.n_rows_range[2]))
      [] cfg.type = "table_resource" ->
             TableResourceGen(build(cfg.name), build(cfg.description),
                              build(cfg.table_schema))

(***************************************************************************)
(* The process.                                                            *)
(***************************************************************************)
TypeInitIdle == ta = TNom("int") /\ tb = TNom("int") /\ tres = "none"

NotParsed == [done |-> FALSE, ok |-> FALSE, err |-> "", node |-> NoNode]
NotBuilt == [built |-> FALSE, term |-> NoNode, loc |-> <<>>]
DocInitIdle == doc = [type |-> "word"] /\ pres = NotParsed /\ dgen = NotBuilt /\ dprob = 1

\* module import: the class body of RandState evaluates Random() and set() once
Init ==
    /\ seed \in Seeds
    /\ rngs = <<RandomNew(seed)>>
    /\ sets = <<{}>>
    /\ ctxs = <<>>
    /\ gens = <<>>
    /\ calls = <<>>
    /\ cap \in 0 .. MaxUniqueAttempts
    /\ TypeInitIdle
    /\ DocInitIdle

\* RandState(max_unique_attempts=cap): rnd and seen are the class defaults
NewRandStateDefault ==
    /\ Len(ctxs) < MaxCtx
    /\ ctxs' = Append(ctxs, [rnd |-> 1, seen |-> 1, max_unique_attempts |-> cap])
    /\ UNCHANGED <<rngs, sets, gens, calls, cap, seed, ta, tb, tres, docVars>>

\* RandState(rnd=Random(seed), max_unique_attempts=cap): seen is the class default
NewRandStateSeeded ==
    /\ Len(ctxs) < MaxCtx
    /\ rngs' = Append(rngs, RandomNew(seed))
    /\ ctxs' = Append(ctxs, [rnd |-> Len(rngs) + 1, seen |-> 1, max_unique_attempts |-> cap])
    /\ UNCHANGED <<sets, gens, calls, cap, seed, ta, tb, tres, docVars>>

\* RandState(seen=set(), max_unique_attempts=cap): rnd is the class default
NewRandStateOwnSeen ==
    /\ Len(ctxs) < MaxCtx
    /\ sets' = Append(sets, {})
    /\ ctxs' = Append(ctxs, [rnd |-> 1, seen |-> Len(sets) + 1, max_unique_attempts |-> cap])
    /\ UNCHANGED <<rngs, gens, calls, cap, seed, ta, tb, tres, docVars>>

\* cfg.build()
Build(k) ==
    /\ Len(gens) < MaxGens
    /\ gens' = Append(gens, [cfg |-> k, loc |-> BuildLocals(Configs[k])])
    /\ UNCHANGED <<rngs, sets, ctxs, calls, cap, seed, ta, tb, tres, docVars>>

\* gens[g](ctxs[c])
Invoke(g, c) ==
    /\ Len(calls) < MaxCalls
    /\ LET ctx == ctxs[c]
           S0 == [rng |-> rngs[ctx.rnd], seen |-> sets[ctx.seen],
                  loc |-> ClosureLocals(gens[g]), max |-> ctx.max_unique_attempts, ev |-> <<>>]
           r == Eval(Configs[gens[g].cfg], <<>>, S0)
       IN  /\ rngs' = [rngs EXCEPT ![ctx.rnd] = r.S.rng]
           /\ sets' = [sets EXCEPT ![ctx.seen] = r.S.seen]
           /\ gens' = [gens EXCEPT ![g].loc = r.S.loc]
           /\ calls' = Append(calls, [g |-> g, c |-> c, ok |-> r.ok, err |-> r.err,
                                      v |-> r.v, ev |-> r.S.ev,
                                      rng0 |-> S0.rng, seen0 |-> S0.seen, loc0 |-> gens[g].loc])
    /\ UNCHANGED <<ctxs, cap, seed, ta, tb, tres, docVars>>

Next ==
    \/ NewRandStateDefault
    \/ NewRandStateSeeded
    \/ NewRandStateOwnSeen
    \/ \E k \in DOMAIN Configs : Build(k)
    \/ \E g \in DOMAIN gens, c \in DOMAIN ctxs : Invoke(g, c)

Spec == Init /\ [][Next]_vars

(***************************************************************************)
(* Type reconciliation on its own: is_subset_type applied to pairs of type *)
(* descriptors.                                                            *)
(***************************************************************************)
InitType ==
    /\ rngs = <<RandomNew(0)>>
    /\ sets = <<{}>>
    /\ ctxs = <<>>
    /\ gens = <<>>
    /\ calls = <<>>
    /\ cap = 0
    /\ seed = 0
    /\ ta \in TypeDescs
    /\ tb \in TypeDescs
    /\ tres = "none"
    /\ DocInitIdle

Reconcile ==
    /\ tres = "none"
    /\ tres' = is_subset_type(ta, tb)
    /\ UNCHANGED <<rngs, sets, ctxs, gens, calls, cap, seed, ta, tb, docVars>>

NextType == Reconcile

SpecType == InitType /\ [][NextType]_vars

(***************************************************************************)
(* The raw documents the model parses.                                     *)
(***************************************************************************)
DWord == [type |-> "word"]
DInteger(min, max) == [type |-> "integer", min |-> min, max |-> max]
DSnake(n_words) == [type |-> "snake_case_name", n_words |-> n_words]
DMaybe(child) == [type |-> "maybe", child |-> child]
DMaybeProb(child, prob) == [type |-> "maybe", prob |-> prob, child |-> child]
DUnique(child) == [type |-> "unique", child |-> child]
DBatch(child, size, unique) ==
    [type |-> "batch", child |-> child, size |-> size, unique |-> unique]
DSeq(children) == [type |-> "seq", children |-> children]
DChoice(children) == [type |-> "choice", children |-> children]

DSeqUnique(children) == [type |-> "seq", children |-> children, unique |-> TRUE]

LeafDocs == {DWord, DInteger(0, 1), DInteger(3, 4), DInteger(5, 5), [type |-> "integer"]}
EmptyDocs == {DSeq(<<>>), DChoice(<<>>)}

CoreDocs ==
    LeafDocs \cup EmptyDocs
    \cup {DMaybe(c) : c \in {DWord, DInteger(0, 1)}}
    \cup {DMaybeProb(c, p) : c \in {DWord, DInteger(0, 1)}, p \in {<<0, 1>>, <<1, 2>>, <<1, 1>>}}
    \cup {DUnique(c) : c \in {DWord, DMaybe(DWord)} \cup EmptyDocs}
    \cup {DBatch(c, z, u) : c \in {DWord, DInteger(0, 1)} \cup EmptyDocs,
                            z \in {Fixed(2), Range(1, 2)}, u \in BOOLEAN}
    \cup {DMaybe(c) : c \in EmptyDocs}
    \cup {DSeq(<<a, b>>) : a \in {DWord, DInteger(0, 1)},
                           b \in {DWord, DMaybe(DInteger(0, 1))} \cup EmptyDocs}
    \cup {DChoice(<<a, b>>) : a \in {DWord, DInteger(0, 1)},
                              b \in {DWord, DBatch(DWord, Fixed(1), FALSE)} \cup EmptyDocs}
    \cup {DSeqUnique(<<DWord, DWord>>), DSeqUnique(<<DWord, DInteger(0, 1)>>),
          DBatch(DWord, Fixed(0), FALSE), DBatch(DInteger(0, 1), Range(0, 1), FALSE),
          DUnique(DUnique(DWord)), DUnique(DInteger(5, 5))}

\* documents of the field-type and schema variants; a field the constructor
\* does not set is left out of the document
DIntegerFieldType(minimum_range, maximum_range, undefined_prob) ==
    [type |-> "integer_field_type", minimum_range |-> minimum_range,
     maximum_range |-> maximum_range, undefined_prob |-> undefined_prob]
DNumberFieldType(minimum_range, maximum_range, undefined_prob) ==
    [type |-> "number_field_type", minimum_range |-> minimum_range,
     maximum_range |-> maximum_range, undefined_prob |-> undefined_prob]
DStringFieldType(minLength_range, maxLength_range, undefined_prob) ==
    [type |-> "string_field_type", minLength_range |-> minLength_range,
     maxLength_range |-> maxLength_range, undefined_prob |-> undefined_prob]
DEnumIntegerFieldType(level_start_range, n_levels_range, undefined_prob) ==
    [type |-> "enum_integer_field_type", level_start_range |-> level_start_range,
     n_levels_range |-> n_levels_range, undefined_prob |-> undefined_prob]
DEnumStringFieldType(n_levels_range, undefined_prob) ==
    [type |-> "enum_string_field_type", n_levels_range |-> n_levels_range,
     undefined_prob |-> undefined_prob]
DMetaGroup(group_name, field_name) ==
    [type |-> "meta_group", group_name |-> group_name, field_name |-> field_name,
     n_range |-> <<1, 1>>, undefined_prob |-> <<1, 1>>]
DFieldGroup(group_meta, field_type) ==
    [type |-> "field_group", group_meta |-> group_meta, field_type |-> field_type]
DLikertFieldGroup(field_type) == [type |-> "likert_field_group", field_type |-> field_type]
DTableSchema(fields) ==
    [type |-> "table_schema", fields |-> fields, undefined_prob |-> <<1, 1>>]

Never == <<0, 1>>
Always == <<1, 1>>

\* field types that leave every optional property undefined
PlainInteger == DIntegerFieldType(<<0, 1>>, <<0, 1>>, Always)
PlainNumber == DNumberFieldType(<<0, 1>>, <<0, 1>>, Always)

FieldTypeDocs ==
    {DIntegerFieldType(a, b, u) : a, b \in {<<0, 1>>, <<2, 3>>}, u \in {Never, Half}}
    \cup {DNumberFieldType(a, b, u) : a, b \in {<<0, 1>>, <<2, 3>>}, u \in {Never, Half}}
    \cup {DStringFieldType(a, b, u) : a, b \in {<<0, 1>>, <<2, 3>>}, u \in {Never, Half}}
    \cup {DEnumIntegerFieldType(<<2, 3>>, n, u) : n \in {<<0, 0>>, <<1, 2>>},
                                                   u \in {Never, Always}}
    \cup {DEnumStringFieldType(n, u) : n \in {<<0, 0>>, <<1, 2>>}, u \in {Never, Always}}
    \cup {[type |-> "enum_integer_field_type", level_start_range |-> <<2, 3>>,
           n_levels_range |-> n, undefined_prob |-> u, label_name |-> DWord] :
            n \in {<<1, 2>>, <<2, 2>>}, u \in {Never, Always}}
    \cup {[type |-> "enum_integer_field_type"], [type |-> "enum_string_field_type"]}

\* children for the typed slots: of the slot's type, of another class, of a
\* union or tuple type, and without a return type
SlotDocs ==
    {[type |-> "meta_group", group_name |-> c, n_range |-> <<1, 1>>] :
        c \in {DWord, DInteger(0, 1), DMaybe(DWord), DBatch(DWord, Fixed(1), FALSE),
               DChoice(<<DWord, DSnake(Fixed(1))>>), DUnique(DWord), DChoice(<<>>)}}
    \cup {[DMetaGroup(DWord, DWord) EXCEPT !.n_range = n] : n \in {<<1, 2>>, <<2, 2>>}}
    \cup {DFieldGroup(g, f) :
            g \in {DMetaGroup(DWord, DWord), DWord, DBatch(DWord, Fixed(1), FALSE), DSeq(<<>>)},
            f \in {PlainInteger, DWord, DChoice(<<PlainInteger, PlainNumber>>),
                   DMaybe(PlainInteger)}}
    \cup {DLikertFieldGroup(f) : f \in {PlainInteger, PlainNumber, DChoice(<<>>)}}
    \cup {DFieldGroup([DMetaGroup(DWord, DWord) EXCEPT !.n_range = n], f) :
            n \in {<<1, 2>>, <<2, 2>>},
            f \in {DIntegerFieldType(<<0, 1>>, <<2, 3>>, Never), DStringFieldType(<<0, 1>>, <<0, 1>>, Half)}}
    \cup {DTableSchema(f) :
            f \in {DFieldGroup(DMetaGroup(DWord, DWord), PlainInteger), DWord,
                   DChoice(<<>>), DBatch(PlainInteger, Fixed(1), FALSE),
                   [list |-> <<DFieldGroup(DMetaGroup(DWord, DWord), PlainInteger), DWord>>],
                   [list |-> <<DSeq(<<>>)>>]}}
    \cup {[type |-> "field_group"], [type |-> "table_schema"], [type |-> "meta_group"]}

\* schemas of two field groups whose group and field names are snake-case
\* names of one or two words
SchemaDocs ==
    {DTableSchema([list |-> <<DFieldGroup(DMetaGroup(DSnake(g1), DSnake(f1)), PlainInteger),
                              DFieldGroup(DMetaGroup(DSnake(g2), DSnake(f2)), PlainInteger)>>]) :
        g1, f1, g2, f2 \in {Fixed(1), Fixed(2)}}

\* a resource of n_rows rows over the schema fields describe
DTableResource(fields, n_rows) ==
    [type |-> "table_resource", name |-> DWord, description |-> DWord,
     table_schema |-> [type |-> "table_schema", fields |-> fields,
                       n_rows_range |-> <<n_rows, n_rows>>, undefined_prob |-> Always]]

\* one column of the given field type
DColumn(field_type) == DFieldGroup(DMetaGroup(DWord, DWord), field_type)

\* resources of one column of each field type, and of two field groups whose
\* names are snake-case names of one or two words
ResourceDocs ==
    {DTableResource(DColumn(f), n) :
        n \in {0, 2},
        f \in {DIntegerFieldType(<<0, 1>>, <<2, 3>>, Half),
               DNumberFieldType(<<0, 1>>, <<2, 3>>, Half),
               DNumberFieldType(<<2, 3>>, <<0, 1>>, Never),
               DStringFieldType(<<0, 1>>, <<0, 1>>, Never),
               DEnumIntegerFieldType(<<2, 3>>, <<2, 2>>, Always),
               DEnumIntegerFieldType(<<2, 3>>, <<0, 0>>, Always),
               [type |-> "enum_string_field_type", n_levels_range |-> <<2, 2>>,
                undefined_prob |-> Always, label_name |-> DWord]}}
    \cup {DTableResource([list |-> <<DFieldGroup(DMetaGroup(DSnake(g1), DSnake(f1)), PlainInteger),
                                     DFieldGroup(DMetaGroup(DSnake(g2), DSnake(f2)), PlainInteger)>>],
                         1) :
            g1, f2 \in {Fixed(1)}, f1, g2 \in {Fixed(1), Fixed(2)}}
    \cup {[type |-> "table_resource"],
          [type |-> "table_resource", table_schema |-> DWord]}

Docs == CoreDocs \cup FieldTypeDocs \cup SlotDocs \cup SchemaDocs \cup ResourceDocs

(***************************************************************************)
(* One run: parse_gencfg(doc), build() of the parsed node, and invocations *)
(* of the closure against RandState(max_unique_attempts=cap,               *)
(* default_maybe_prob=dprob/2), whose rnd and seen are rngs[1] and         *)
(* sets[1].                                                                *)
(***************************************************************************)
InitDoc ==
    /\ seed \in Seeds
    /\ rngs = <<RandomNew(seed)>>
    /\ sets = <<{}>>
    /\ ctxs = <<>>
    /\ gens = <<>>
    /\ calls = <<>>
    /\ cap = MaxUniqueAttempts
    /\ TypeInitIdle
    /\ doc \in Docs
    /\ pres = NotParsed
    /\ dgen = NotBuilt
    /\ dprob \in 0 .. 2

\* parse_gencfg(doc)
ParseDoc ==
    /\ ~pres.done
    /\ pres' = [parse_gencfg(doc) EXCEPT !.done = TRUE]
    /\ UNCHANGED <<rngs, sets, ctxs, gens, calls, cap, seed, ta, tb, tres, doc, dgen, dprob>>

\* node.build()
BuildDoc ==
    /\ pres.done /\ pres.ok /\ ~dgen.built
    /\ dgen' = [built |-> TRUE, term |-> build(pres.node),
                loc |-> BuildLocals(build(pres.node))]
    /\ UNCHANGED <<rngs, sets, ctxs, gens, calls, cap, seed, ta, tb, tres, doc, pres, dprob>>

\* the closure invoked against the RandState
InvokeDoc ==
    /\ dgen.built
    /\ Len(calls) < MaxCalls
    /\ LET S0 == [rng |-> rngs[1], seen |-> sets[1], loc |-> dgen.loc, max |-> cap,
                  ev |-> <<>>, style |-> "SPSS", default_maybe_prob |-> <<dprob, 2>>]
           r == Eval(dgen.term, <<>>, S0)
       IN  /\ rngs' = [rngs EXCEPT ![1] = r.S.rng]
           /\ sets' = [sets EXCEPT ![1] = r.S.seen]
           /\ dgen' = [dgen EXCEPT !.loc = r.S.loc]
           /\ calls' = Append(calls, [g |-> 1, c |-> 1, ok |-> r.ok, err |-> r.err,
                                      v |-> r.v, ev |-> r.S.ev,
                                      rng0 |-> S0.rng, seen0 |-> S0.seen, loc0 |-> dgen.loc])
    /\ UNCHANGED <<ctxs, gens, cap, seed, ta, tb, tres, doc, pres, dprob>>

NextDoc == ParseDoc \/ BuildDoc \/ InvokeDoc

SpecDoc == InitDoc /\ [][NextDoc]_vars

(***************************************************************************)
(* Reading the log.                                                        *)
(***************************************************************************)
Front(q) == SubSeq(q, 1, Len(q) - 1)

RECURSIVE NodeAt(_, _)
NodeAt(node, path) ==
    IF path = <<>> THEN node ELSE NodeAt(node.children[Head(path)], Tail(path))

CfgOf(i) == Configs[gens[calls[i].g].cfg]

\* the events of kind k of call i
EventsOf(i, k) == SelectSeq(calls[i].ev, LAMBDA e : e.e = k)

\* the returns of unique() wrappers in the calls against RandState c, oldest first
RECURSIVE UniqueReturnsFrom(_, _)
UniqueReturnsFrom(i, c) ==
    IF i > Len(calls) THEN <<>>
    ELSE (IF calls[i].c = c THEN EventsOf(i, "uret") ELSE <<>>) \o UniqueReturnsFrom(i + 1, c)

UniqueReturns(c) == UniqueReturnsFrom(1, c)

\* the returns of the local_unique() wrapper around the child at cpath in the
\* calls of closure g, oldest first
RECURSIVE LocalReturnsFrom(_, _, _)
LocalReturnsFrom(i, g, cpath) ==
    IF i > Len(calls) THEN <<>>
    ELSE (IF calls[i].g = g
          THEN SelectSeq(EventsOf(i, "lret"), LAMBDA e : e.p = cpath)
          ELSE <<>>) \o LocalReturnsFrom(i + 1, g, cpath)

LocalReturns(g, cpath) == LocalReturnsFrom(1, g, cpath)

Distinct(es) == \A i, j \in DOMAIN es : i # j => es[i].v # es[j].v
Injective(xs) == \A i, j \in DOMAIN xs : i # j => xs[i] # xs[j]
Values(es) == {es[i].v : i \in DOMAIN es}
IsRaise(e) == e.e \in {"uraise", "lraise"}
HasEvent(i, k) == \E x \in DOMAIN calls[i].ev : calls[i].ev[x].e = k

\* the number of values a leaf generator (Word, Integer) can return
DomainSize(node) ==
    IF node.type = "word" THEN Cardinality({Words[i] : i \in DOMAIN Words})
    ELSE node.hi - node.lo + 1

(***************************************************************************)
(* C1  Global uniqueness: the values returned by unique() wrappers during  *)
(* the invocations against one RandState are pairwise distinct, whichever  *)
(* closures returned them, and each was absent from state.seen when it was *)
(* tested and is in it once returned.                                      *)
(***************************************************************************)
GlobalUniqueness ==
    \A c \in DOMAIN ctxs :
        LET U == UniqueReturns(c)
        IN  /\ Distinct(U)
            /\ \A x \in DOMAIN U : U[x].v \notin U[x].pre /\ U[x].v \in U[x].post

GlobalUniquenessWitness ==
    \E i, j \in DOMAIN calls :
        /\ i # j /\ calls[i].c = calls[j].c /\ calls[i].g # calls[j].g
        /\ gens[calls[i].g].cfg # gens[calls[j].g].cfg
        /\ HasEvent(i, "uret") /\ HasEvent(j, "uret")

(***************************************************************************)
(* C2  RandState.seen only grows: no step of the process removes a value   *)
(* from any seen set.                                                      *)
(***************************************************************************)
SeenMonotone ==
    [][\A x \in DOMAIN sets : sets[x] \subseteq sets'[x]]_vars

SeenMonotoneWitness ==
    \E x \in DOMAIN sets : Cardinality(sets[x]) >= 2 /\ Len(calls) >= 2

(***************************************************************************)
(* C3  Local uniqueness: whenever a Batch with unique = true returns, the  *)
(* sequence has as many elements as its size and they are pairwise         *)
(* distinct (so its child had at least that many values).                  *)
(***************************************************************************)
LocalUniqueness ==
    \A i \in DOMAIN calls : \A x \in DOMAIN calls[i].ev :
        LET e == calls[i].ev[x]
            node == NodeAt(CfgOf(i), e.p)
        IN  (e.e = "bret" /\ node.unique) =>
                /\ Injective(e.v.items)
                /\ Len(e.v.items) = e.n
                /\ node.lo <= e.n /\ e.n <= node.hi
                /\ (node.children[1].type \in {"word", "integer"} =>
                        e.n <= DomainSize(node.children[1]))

LocalUniquenessWitness ==
    \E i \in DOMAIN calls : \E x \in DOMAIN calls[i].ev :
        LET e == calls[i].ev[x]
        IN  /\ e.e = "bret" /\ NodeAt(CfgOf(i), e.p).unique
            /\ Len(e.v.items) = 2
            /\ DomainSize(NodeAt(CfgOf(i), e.p).children[1]) >= 2

(***************************************************************************)
(* C4  Bounded retry: an invocation of a unique() or local_unique()        *)
(* wrapper invokes its child at most max_unique_attempts times, and a      *)
(* Batch with unique = true and a fixed size larger than the number of     *)
(* values of its child ends, once invoked, by raising the                  *)
(* uniqueness error.                                                       *)
(***************************************************************************)
IsStarved(node) ==
    /\ node.type = "batch" /\ node.unique /\ ~node.ranged
    /\ node.children[1].type \in {"word", "integer"}
    /\ DomainSize(node.children[1]) < node.lo

BoundedRetry ==
    \A i \in DOMAIN calls :
        LET ev == calls[i].ev
        IN  /\ \A x \in DOMAIN ev :
                   ev[x].e \in {"uret", "lret", "uraise", "lraise"} =>
                       ev[x].n <= ctxs[calls[i].c].max_unique_attempts
            /\ \A x \in DOMAIN ev :
                   (ev[x].e = "call" /\ IsStarved(NodeAt(CfgOf(i), ev[x].p))) =>
                       /\ ~calls[i].ok /\ calls[i].err = "RuntimeError"
                       /\ ev[Len(ev)].e = "lraise"
                       /\ ev[Len(ev)].p = ev[x].p \o <<1>>

BoundedRetryWitness ==
    \E i \in DOMAIN calls :
        LET ev == calls[i].ev
        IN  /\ IsStarved(CfgOf(i))
            /\ ev[Len(ev)].e = "lraise" /\ ev[Len(ev)].n = MaxUniqueAttempts
            /\ HasEvent(i, "lret")

(***************************************************************************)
(* C5  Uniqueness exhaustion is fatal: when a unique() or local_unique()   *)
(* wrapper raises, nothing runs after it, and the top-level invocation     *)
(* ends with that error and without a value, whatever combinators enclose  *)
(* the wrapper.                                                            *)
(***************************************************************************)
ExhaustionFatal ==
    \A i \in DOMAIN calls :
        LET ev == calls[i].ev
        IN  \A x \in DOMAIN ev :
                IsRaise(ev[x]) =>
                    /\ x = Len(ev)
                    /\ ~calls[i].ok /\ calls[i].err = "RuntimeError"
                    /\ calls[i].v = VNone

\* a unique() wrapper raising below a Maybe, itself below a Seq's local_unique
\* wrapper
ExhaustionFatalWitness ==
    \E i \in DOMAIN calls :
        /\ CfgOf(i).type = "seq" /\ CfgOf(i).unique
        /\ CfgOf(i).children[1].type = "maybe"
        /\ \E x \in DOMAIN calls[i].ev :
               calls[i].ev[x].e = "uraise" /\ calls[i].ev[x].p = <<1, 1>>

(***************************************************************************)
(* C6  The private set of a Batch with unique = true lives as long as the  *)
(* built closure: the values its local_unique wrapper returned over all    *)
(* invocations of one closure are pairwise distinct, and the set holds     *)
(* exactly those values, so a closure built afresh starts from the empty   *)
(* set whatever earlier closures of the same node returned.                *)
(***************************************************************************)
BatchKeys(g) ==
    {key \in DOMAIN gens[g].loc :
        NodeAt(Configs[gens[g].cfg], Front(Front(key))).type = "batch"}

LocalSetLifetime ==
    \A g \in DOMAIN gens : \A key \in BatchKeys(g) :
        LET R == LocalReturns(g, Front(key))
        IN  Distinct(R) /\ gens[g].loc[key] = Values(R)

\* a closure whose second invocation had to reject a value its first invocation
\* returned, next to a later closure of the same node that has not run
LocalSetLifetimeWitness ==
    \E g, h \in DOMAIN gens : \E key \in BatchKeys(g) :
        /\ g # h /\ gens[g].cfg = gens[h].cfg
        /\ Len(calls) >= 2
        /\ calls[1].g = g /\ calls[2].g = g /\ calls[2].ok
        /\ \E x \in DOMAIN calls[2].ev :
               calls[2].ev[x].e = "lret" /\ calls[2].ev[x].n >= 2
        /\ gens[h].loc[key] = {}

(***************************************************************************)
(* C7  Determinism: two runs of one configuration, each building the       *)
(* generator and invoking it once against its own RandState constructed    *)
(* with an RNG of the same seed and the default seen, return the same.     *)
(***************************************************************************)
FirstUse(i) ==
    \A j \in 1 .. (i - 1) : calls[j].c # calls[i].c /\ calls[j].g # calls[i].g

SeededRun(i) == FirstUse(i) /\ ctxs[calls[i].c].rnd # 1

Determinism ==
    \A i, j \in DOMAIN calls :
        (/\ SeededRun(i) /\ SeededRun(j)
         /\ gens[calls[i].g].cfg = gens[calls[j].g].cfg
         /\ calls[i].rng0 = calls[j].rng0) =>
            /\ calls[i].ok = calls[j].ok
            /\ calls[i].v = calls[j].v

(***************************************************************************)
(* C8  Run isolation: the seen set of a RandState holds only values that   *)
(* unique() wrappers inserted while running against that RandState.        *)
(***************************************************************************)
RunIsolation ==
    \A c \in DOMAIN ctxs : sets[ctxs[c].seen] \subseteq Values(UniqueReturns(c))

(***************************************************************************)
(* C9  is_subset_type(A, B) computes the reconciliation relation: A        *)
(* satisfies B iff A equals B, or A is a union and every member satisfies  *)
(* B, or B is a union and A satisfies some member, or A is a generic type  *)
(* equal to B, or both are classes and A is a subclass of B.               *)
(***************************************************************************)
RECURSIVE Satisfies(_, _)
Satisfies(a, b) ==
    \/ PyEq(a, b)
    \/ a.k \in {"union", "pep604"} /\ \A i \in DOMAIN a.args : Satisfies(a.args[i], b)
    \/ b.k \in {"union", "pep604"} /\ \E j \in DOMAIN b.args : Satisfies(a, b.args[j])
    \/ a.k = "nom" /\ b.k = "nom" /\ (a.n = b.n \/ (a.n = "bool" /\ b.n = "int"))

ReconciliationExact ==
    tres # "none" => tres = (IF Satisfies(ta, tb) THEN "True" ELSE "False")

(***************************************************************************)
(* C10  Reflexivity: is_subset_type(A, A) is true for every type           *)
(* descriptor A.                                                           *)
(***************************************************************************)
Reflexive ==
    (tres # "none" /\ ta = tb) => tres = "True"

ReflexiveWitness ==
    /\ tres = "True" /\ ta = tb /\ ta.k = "union"
    /\ ta.args[1].k = "tuple" /\ ta.args[2].k = "nom"

(***************************************************************************)
(* Reading a document run (SpecDoc).                                       *)
(***************************************************************************)
\* the child slots a raw document fills, each with the type its
\* GenCfgProxy field declares
Slot(c, t) == [c |-> c, t |-> t]
Given(d, f, t) == IF f \in DOMAIN d THEN <<Slot(d[f], t)>> ELSE <<>>

SlotsOf(d) ==
    CASE d.type \in {"maybe", "unique", "batch"} -> Given(d, "child", TAny)
      [] d.type \in {"choice", "seq"} ->
             [i \in DOMAIN d.children |-> Slot(d.children[i], TAny)]
      [] d.type \in {"integer_field_type", "number_field_type", "string_field_type"} ->
             Given(d, "missing_value_name", TNom("str"))
      [] d.type \in {"enum_integer_field_type", "enum_string_field_type"} ->
             Given(d, "label_name", TNom("str")) \o Given(d, "missing_value_name", TNom("str"))
      [] d.type = "meta_group" ->
             Given(d, "group_name", TNom("str")) \o Given(d, "field_name", TNom("str"))
             \o Given(d, "title", TNom("str")) \o Given(d, "description", TNom("str"))
      [] d.type = "field_group" ->
             Given(d, "group_meta", MetasT) \o Given(d, "field_type", FieldTypeT)
      [] d.type = "likert_field_group" ->
             Given(d, "group_meta", MetasT)
             \o Given(d, "field_type", TNom("IntegerFieldType"))
      [] d.type = "table_schema" ->
             (IF "fields" \in DOMAIN d /\ "list" \in DOMAIN d.fields
              THEN [i \in DOMAIN d.fields.list |-> Slot(d.fields.list[i], FieldsT)]
              ELSE Given(d, "fields", FieldsT))
             \o Given(d, "missing_value_name", TNom("str"))
      [] d.type = "table_resource" ->
             Given(d, "name", TNom("str")) \o Given(d, "description", TNom("str"))
             \o Given(d, "table_schema", TNom("TableSchema"))
      [] OTHER -> <<>>

\* the document holds a Choice or Seq without children
RECURSIVE HasEmpty(_)
HasEmpty(d) ==
    \/ d.type \in {"choice", "seq"} /\ Len(d.children) = 0
    \/ \E i \in DOMAIN SlotsOf(d) : HasEmpty(SlotsOf(d)[i].c)

\* the return type a child document declares
DeclaredType(c) == return_type(parse_node(c).node).t

\* every slot of the document is a wildcard or holds a child whose declared
\* return type satisfies the slot's type, and so on below
RECURSIVE Reconciled(_)
Reconciled(d) ==
    \A i \in DOMAIN SlotsOf(d) :
        /\ Reconciled(SlotsOf(d)[i].c)
        /\ SlotsOf(d)[i].t = TAny \/ Satisfies(DeclaredType(SlotsOf(d)[i].c), SlotsOf(d)[i].t)

(***************************************************************************)
(* C11  Parse-time type checking: parsing accepts a child in a slot iff    *)
(* the slot is a wildcard or the child's declared return type satisfies    *)
(* the slot's type; otherwise the parse of the whole document fails with   *)
(* the type-mismatch error and produces no node.  Stated for documents     *)
(* without a childless Choice or Seq.                                      *)
(***************************************************************************)
ParseTimeTypeChecking ==
    (pres.done /\ ~HasEmpty(doc)) =>
        /\ pres.ok <=> Reconciled(doc)
        /\ pres.ok => pres.node # NoNode
        /\ ~pres.ok => (pres.err = TypeMismatch /\ pres.node = NoNode)

(***************************************************************************)
(* C12  A document holding a Choice or Seq without children, at top level  *)
(* or in any slot, is rejected by parse_gencfg: no node is produced and    *)
(* no generation starts.                                                   *)
(***************************************************************************)
EmptyRejected ==
    (pres.done /\ HasEmpty(doc)) => (~pres.ok /\ pres.node = NoNode /\ calls = <<>>)

\* the class of a value
ClassOf(v) == IF v.t = "none" THEN "NoneType" ELSE v.t

\* isinstance for a value and a type descriptor: the elements of a tuple
\* belong to the element type, the type of a Field to the argument of Field[...]
RECURSIVE Member(_, _)
Member(v, T) ==
    CASE T.k = "any" -> TRUE
      [] T.k = "nom" -> subclass_of(TNom(ClassOf(v)), T)
      [] T.k \in {"union", "pep604"} -> \E j \in DOMAIN T.args : Member(v, T.args[j])
      [] T.k = "tuple" ->
             v.t = "tuple" /\ \A i \in DOMAIN v.items : Member(v.items[i], T.args[1])
      [] T.k = "alias" -> v.t = T.n /\ Member(v.items[2], T.args[1])

\* the RandState call i was made against, as it was when the call began
StateBefore(i) ==
    [rng |-> calls[i].rng0, seen |-> calls[i].seen0, loc |-> calls[i].loc0, max |-> cap,
     ev |-> <<>>, style |-> "SPSS", default_maybe_prob |-> <<dprob, 2>>]

\* call i invoked the child at path p
Invoked(i, p) == \E k \in DOMAIN calls[i].ev : calls[i].ev[k].e = "call" /\ calls[i].ev[k].p = p

\* what the child of the Maybe returns when invoked after the draw of random()
ChildResult(i) == Eval(dgen.term.children[1], <<1>>, Consume(StateBefore(i)))

(***************************************************************************)
(* C13  Type soundness: every value the generator of a parsed node         *)
(* returns belongs to the node's return_type.                              *)
(***************************************************************************)
TypeSound ==
    \A i \in DOMAIN calls :
        calls[i].ok =>
            /\ return_type(pres.node).ok
            /\ Member(calls[i].v, return_type(pres.node).t)

(***************************************************************************)
(* C14  An Integer node with min <= max returns an int v with              *)
(* min <= v <= max on every invocation, so exactly min when min = max.     *)
(***************************************************************************)
IntegerInBounds ==
    (doc.type = "integer" /\ Get(doc, "min", 0) <= Get(doc, "max", 1000)) =>
        \A i \in DOMAIN calls :
            /\ calls[i].ok
            /\ calls[i].v.t = "int"
            /\ Get(doc, "min", 0) <= calls[i].v.n
            /\ calls[i].v.n <= Get(doc, "max", 1000)

\* both ends are returned
IntegerInBoundsWitness ==
    /\ doc = DInteger(3, 4)
    /\ Len(calls) = 2
    /\ calls[1].v = VInt(3)
    /\ calls[2].v = VInt(4)

(***************************************************************************)
(* C15  Maybe thresholds: with prob = 0.0 every invocation returns None    *)
(* and does not invoke the child; with prob = 1.0 every invocation invokes *)
(* the child and returns its value, a word of the word list for a Word     *)
(* child.                                                                  *)
(***************************************************************************)
MaybeThresholds ==
    (doc.type = "maybe" /\ "prob" \in DOMAIN doc) =>
        \A i \in DOMAIN calls :
            /\ doc.prob = <<0, 1>> =>
                   (calls[i].ok /\ calls[i].v = VNone /\ ~Invoked(i, <<1>>))
            /\ doc.prob = <<1, 1>> =>
                   /\ calls[i].ok /\ Invoked(i, <<1>>)
                   /\ calls[i].v = ChildResult(i).v
                   /\ doc.child = DWord => \E w \in DOMAIN Words : calls[i].v = VStr(Words[w])

\* prob = 0.0 and random() returns 0.0, the least value it can return
MaybeThresholdsWitness ==
    /\ doc = DMaybeProb(DWord, <<0, 1>>)
    /\ Len(calls) = 2
    /\ \E i \in DOMAIN calls : RngDraw(calls[i].rng0) = 0 /\ calls[i].v = VNone

(***************************************************************************)
(* C16  A Maybe whose document gives no prob invokes its child with the    *)
(* probability RandState.default_maybe_prob of the RandState it is invoked *)
(* against: never when that is 0.0, always when it is 1.0.                 *)
(***************************************************************************)
MaybeDefaultProb ==
    (doc.type = "maybe" /\ "prob" \notin DOMAIN doc) =>
        \A i \in DOMAIN calls :
            /\ Invoked(i, <<1>>) <=> random_lt(calls[i].rng0, dprob, 2)
            /\ dprob = 0 => calls[i].v = VNone
            /\ dprob = 2 => calls[i].v = ChildResult(i).v

(***************************************************************************)
(* C17  Order normalization of IntegerFieldType and StringFieldType: the   *)
(* emitted bounds are (min, max) of the two drawn values when both are     *)
(* drawn, so minimum <= maximum and minLength <= maxLength; a single drawn *)
(* bound is emitted unchanged and the other stays None.                    *)
(***************************************************************************)
\* the values the generators of the low and the high bound return in call i:
\* they are the first two the field-type generator invokes
Drawn(i) == call_in_order(dgen.term, <<>>, StateBefore(i), <<3, 4>>, <<>>).v.items

OrderNormalized ==
    doc.type \in {"integer_field_type", "string_field_type"} =>
        \A i \in DOMAIN calls :
            calls[i].ok =>
                LET l1 == Drawn(i)[1]
                    l2 == Drawn(i)[2]
                    low == calls[i].v.items[3]
                    high == calls[i].v.items[4]
                IN  /\ (low # VNone /\ high # VNone) => low.n <= high.n
                    /\ (l1 # VNone /\ l2 # VNone) =>
                           /\ low = (IF l1.n <= l2.n THEN l1 ELSE l2)
                           /\ high = (IF l1.n <= l2.n THEN l2 ELSE l1)
                    /\ (l1 = VNone \/ l2 = VNone) => (low = l1 /\ high = l2)

\* the low bound drawn is above the high bound drawn
OrderNormalizedWitness ==
    /\ doc.type = "integer_field_type"
    /\ Len(calls) >= 1
    /\ calls[1].ok
    /\ Drawn(1)[1] # VNone /\ Drawn(1)[2] # VNone
    /\ Drawn(1)[1].n > Drawn(1)[2].n
    /\ calls[1].v.items[3] = Drawn(1)[2]
    /\ calls[1].v.items[4] = Drawn(1)[1]

(***************************************************************************)
(* C18  Every NumberFieldType emitted has minimum <= maximum when both     *)
(* bounds are present.                                                     *)
(***************************************************************************)
NumberOrdered ==
    \A i \in DOMAIN calls :
        (calls[i].ok /\ calls[i].v.t = "NumberFieldType") =>
            LET minimum == calls[i].v.items[3]
                maximum == calls[i].v.items[4]
            IN  (minimum # VNone /\ maximum # VNone) => minimum.n <= maximum.n

(***************************************************************************)
(* C19  The field names of every generated TableSchema are pairwise        *)
(* distinct.                                                               *)
(***************************************************************************)
\* the names of the fields of a TableSchema value
FieldNames(schema) ==
    [k \in DOMAIN schema.items[1].items |-> schema.items[1].items[k].items[1].items[1].s]

FieldNamesUnique ==
    \A i \in DOMAIN calls :
        (calls[i].ok /\ calls[i].v.t = "TableSchema") =>
            \A a, b \in DOMAIN FieldNames(calls[i].v) :
                a # b => FieldNames(calls[i].v)[a] # FieldNames(calls[i].v)[b]

(***************************************************************************)
(* C20  Every generated EnumIntegerFieldType and EnumStringFieldType has   *)
(* at least one level.                                                     *)
(***************************************************************************)
EnumLevelsNonEmpty ==
    \A i \in DOMAIN calls :
        (calls[i].ok /\ calls[i].v.t \in {"EnumIntegerFieldType", "EnumStringFieldType"}) =>
            Len(calls[i].v.items[1].items) > 0

\* the events of call i at path p that note kind k, and how many there are
EventsAt(i, k, p) == SelectSeq(calls[i].ev, LAMBDA e : e.e = k /\ e.p = p)
Count(i, k, p) == Len(EventsAt(i, k, p))

\* the value the closure at path p returned last in call i
LastReturn(i, p) == EventsAt(i, "ret", p)[Count(i, "ret", p)].v

\* path p lies at or below child k of the root
Below(p, k) == Len(p) >= 1 /\ p[1] = k

(***************************************************************************)
(* C26  Batch length: with a fixed size k >= 0 every invocation returns    *)
(* exactly k elements; with a (min, max) size the length is the first draw *)
(* of the invocation and lies in [min, max]; when unique is false the      *)
(* child is invoked exactly as many times as elements are returned.        *)
(***************************************************************************)
BatchLength ==
    doc.type = "batch" =>
        \A i \in DOMAIN calls :
            LET n == Len(calls[i].v.items)
            IN  /\ ~Get(doc, "unique", FALSE) =>
                       (calls[i].ok /\ Count(i, "call", <<1>>) = n)
                /\ (calls[i].ok /\ ~doc.size.ranged) => n = doc.size.lo
                /\ (calls[i].ok /\ doc.size.ranged) =>
                       /\ n = randint(calls[i].rng0, doc.size.lo, doc.size.hi)
                       /\ doc.size.lo <= n /\ n <= doc.size.hi
                       /\ Count(i, "call", <<1>>) >= n

\* one built generator returns both lengths of its range
BatchLengthWitness ==
    /\ doc = DBatch(DWord, Range(1, 2), FALSE)
    /\ Len(calls) = 2
    /\ Len(calls[1].v.items) # Len(calls[2].v.items)
    /\ calls[1].ok /\ calls[2].ok

(***************************************************************************)
(* C27  Seq ordering: every child is invoked in configuration order, child *)
(* k being done before child k + 1 starts; the result has one element per  *)
(* child, element k being the value child k returned; with unique = false  *)
(* every child is invoked exactly once; with unique = true every child has *)
(* a private set of its own, so the values at one position are pairwise    *)
(* distinct across the invocations of the built generator.                 *)
(***************************************************************************)
SeqOrdering ==
    doc.type = "seq" =>
        \A i \in DOMAIN calls :
            LET ev == calls[i].ev
                unique == Get(doc, "unique", FALSE)
            IN  /\ \A x, y \in DOMAIN ev :
                       (\E k \in DOMAIN doc.children :
                            Below(ev[x].p, k) /\ \E m \in DOMAIN doc.children :
                                                     m > k /\ Below(ev[y].p, m)) => x < y
                /\ calls[i].ok =>
                       /\ Len(calls[i].v.items) = Len(doc.children)
                       /\ \A k \in DOMAIN doc.children :
                              /\ Count(i, "ret", <<k>>) >= 1
                              /\ calls[i].v.items[k] = LastReturn(i, <<k>>)
                              /\ ~unique => Count(i, "call", <<k>>) = 1
                              /\ unique =>
                                     \A e \in {ev[x] : x \in DOMAIN ev} :
                                         (e.e = "lret" /\ e.p = <<k>>) =>
                                             e.pre = {calls[j].v.items[k] :
                                                         j \in {h \in 1 .. (i - 1) : calls[h].ok}}
                /\ unique =>
                       \A j \in DOMAIN calls :
                           (i < j /\ calls[i].ok /\ calls[j].ok) =>
                               \A k \in DOMAIN doc.children :
                                   calls[i].v.items[k] # calls[j].v.items[k]

\* two invocations of a Seq with unique = true: the word the first returned
\* at position 2 is returned by the second at position 1, after a retry
SeqOrderingWitness ==
    /\ doc = DSeqUnique(<<DWord, DWord>>)
    /\ Len(calls) = 2
    /\ calls[1].ok /\ calls[2].ok
    /\ calls[2].v.items[1] = calls[1].v.items[2]
    /\ Count(2, "call", <<1>>) = 2

\* no uniqueness wrapper sits at or below node
RECURSIVE Pure(_)
Pure(node) ==
    /\ node.type # "unique"
    /\ ~(node.type \in {"batch", "seq"} /\ node.unique)
    /\ \A k \in DOMAIN node.children : Pure(node.children[k])

\* event e of a wrapper is about the global set
IsGlobal(e) == e.e \in {"uret", "uraise"}

\* the path of the generator the wrapper that noted e wraps
WrappedPath(e) == IF IsGlobal(e) THEN e.p \o <<1>> ELSE e.p

\* the set the wrapper that noted event x of call i found when it was invoked,
\* given that what it wraps is Pure: the set as the last earlier return of a
\* wrapper on the same set left it, or as the call found it
SetBefore(i, x) ==
    LET ev == calls[i].ev
        e == ev[x]
        earlier == {y \in 1 .. (x - 1) :
                       IF IsGlobal(e) THEN ev[y].e = "uret"
                       ELSE ev[y].e = "lret" /\ ev[y].p = e.p}
    IN  IF earlier # {}
        THEN ev[CHOOSE y \in earlier : \A z \in earlier : z <= y].post
        ELSE IF IsGlobal(e) THEN calls[i].seen0 ELSE calls[i].loc0[e.p \o <<0>>]

(***************************************************************************)
(* C30  State unchanged on exhaustion: when a unique() or local_unique()   *)
(* wrapper whose child writes no seen set raises after                     *)
(* max_unique_attempts rejections, its set (RandState.seen, or the private *)
(* set) is the set it found when invoked; a value is added only by an      *)
(* attempt that returns it; with max_unique_attempts = 0 the wrapper       *)
(* raises without invoking its child.                                      *)
(***************************************************************************)
UnchangedOnExhaustion ==
    \A i \in DOMAIN calls :
        LET ev == calls[i].ev
            c == ctxs[calls[i].c]
        IN  \A x \in DOMAIN ev :
                ev[x].e \in {"uret", "lret", "uraise", "lraise"} =>
                    /\ Pure(NodeAt(CfgOf(i), WrappedPath(ev[x]))) =>
                           /\ IsRaise(ev[x]) =>
                                  /\ ev[x].n = c.max_unique_attempts
                                  /\ ev[x].post = SetBefore(i, x)
                                  /\ (i = Len(calls) /\ IsGlobal(ev[x])) =>
                                         sets[c.seen] = SetBefore(i, x)
                                  /\ (i = Len(calls) /\ ~IsGlobal(ev[x])) =>
                                         gens[calls[i].g].loc[ev[x].p \o <<0>>] = SetBefore(i, x)
                           /\ ~IsRaise(ev[x]) =>
                                  /\ ev[x].pre = SetBefore(i, x)
                                  /\ ev[x].v \notin ev[x].pre
                                  /\ ev[x].post = ev[x].pre \cup {ev[x].v}
                    /\ c.max_unique_attempts = 0 =>
                           /\ IsRaise(ev[x])
                           /\ \A y \in DOMAIN ev :
                                  ~(ev[y].e = "call" /\ ev[y].p = WrappedPath(ev[x]))

\* unique(word) raises after rejecting a word that an earlier call put into
\* RandState.seen, and the set still holds that word alone
UnchangedOnExhaustionWitness ==
    /\ Len(calls) = 2
    /\ CfgOf(2) = Unique(Word) /\ ~calls[2].ok
    /\ Cardinality(calls[2].seen0) = 1
    /\ sets[ctxs[calls[2].c].seen] = calls[2].seen0
    /\ \E y \in DOMAIN calls[2].ev : calls[2].ev[y].e = "call" /\ calls[2].ev[y].p = <<1>>

\* the document wraps a Unique in a second global uniqueness wrapper: a
\* Unique of a Unique, or a MetaGroup (which wraps its group_name in
\* gen.unique) whose group_name is a Unique
DoublyUnique ==
    \/ doc.type = "unique" /\ "child" \in DOMAIN doc /\ doc.child.type = "unique"
    \/ doc.type = "meta_group" /\ "group_name" \in DOMAIN doc /\ doc.group_name.type = "unique"

\* the built generator with one of the two wrappers taken off
SinglyWrapped ==
    IF doc.type = "unique" THEN dgen.term.children[1]
    ELSE [dgen.term EXCEPT !.children[1] = @.children[1]]

(***************************************************************************)
(* C29  Double global uniqueness: a generator wrapped twice in the global  *)
(* uniqueness wrapper returns whenever the generator wrapped once would,   *)
(* and a Unique of a Unique returns a value that was not in RandState.seen *)
(* before the call.                                                        *)
(***************************************************************************)
DoubleUniqueSucceeds ==
    DoublyUnique =>
        \A i \in DOMAIN calls :
            Eval(SinglyWrapped, <<>>, StateBefore(i)).ok =>
                /\ calls[i].ok
                /\ doc.type = "unique" => calls[i].v \notin calls[i].seen0

\* the levels of the EnumIntegerFieldType call i returned, their labels, and
\* the missing values of that field type (none when missingValues is None)
LevelsOf(i) == calls[i].v.items[1].items
LabelOf(level) == level.items[2]
MissingOf(i) == IF calls[i].v.items[5] = VNone THEN <<>> ELSE calls[i].v.items[5].items

\* the state in which call i draws random() for the labelling: missingValues
\* and value_range have been invoked
StateAtLabelDraw(i) ==
    Eval(dgen.term.children[1], <<1>>,
         Eval(dgen.term.children[6], <<6>>, StateBefore(i)).S).S

(***************************************************************************)
(* C21  Enum-integer labelling is all-or-nothing: in every generated       *)
(* EnumIntegerFieldType either every level, the levels made from           *)
(* missingValues included, carries a label or none does; one draw of       *)
(* random() per field type decides which; the labels that are present are  *)
(* pairwise distinct within the field type.                                *)
(***************************************************************************)
LabelsAllOrNothing ==
    doc.type = "enum_integer_field_type" =>
        \A i \in DOMAIN calls :
            calls[i].ok =>
                LET levels == LevelsOf(i)
                    mv == MissingOf(i)
                    bare == random_lt(StateAtLabelDraw(i).rng,
                                      dgen.term.num, dgen.term.den)
                IN  /\ Len(levels) >= Len(mv)
                    /\ \A k \in DOMAIN mv :
                           levels[Len(levels) - Len(mv) + k].items[1] = mv[k]
                    /\ bare => /\ \A k \in DOMAIN levels : LabelOf(levels[k]) = VNone
                               /\ Count(i, "call", <<2>>) = 0
                    /\ ~bare => /\ \A k \in DOMAIN levels : LabelOf(levels[k]).t = "str"
                                /\ \A k, n \in DOMAIN levels :
                                       k # n => LabelOf(levels[k]) # LabelOf(levels[n])
                                /\ Count(i, "call", <<2>>) >= Len(levels)

\* a labelled field type of two or more levels, the last made from a
\* missing value
LabelsAllOrNothingWitness ==
    /\ doc.type = "enum_integer_field_type"
    /\ \E i \in DOMAIN calls :
           /\ calls[i].ok
           /\ Len(MissingOf(i)) >= 1
           /\ Len(LevelsOf(i)) >= 2
           /\ \A k \in DOMAIN LevelsOf(i) : LabelOf(LevelsOf(i)[k]) # VNone

(***************************************************************************)
(* C24  FieldGroup arity: one invocation of a FieldGroup generator invokes *)
(* the meta-group generator exactly once and the field-type generator      *)
(* exactly once per metadata entry returned; the result has one Field per  *)
(* entry, in the same order, Field.meta being the entry and Field.type the *)
(* value of the invocation of the field-type generator made for it.        *)
(***************************************************************************)
FieldGroupArity ==
    doc.type \in {"field_group", "likert_field_group"} =>
        \A i \in DOMAIN calls :
            /\ Count(i, "call", <<1>>) = 1
            /\ calls[i].ok =>
                   LET metas == LastReturn(i, <<1>>).items
                       types == EventsAt(i, "ret", <<2>>)
                       out == calls[i].v.items
                   IN  /\ Count(i, "ret", <<1>>) = 1
                       /\ Len(out) = Len(metas)
                       /\ Count(i, "call", <<2>>) = Len(metas)
                       /\ Len(types) = Len(metas)
                       /\ \A k \in DOMAIN out :
                              /\ out[k].t = "Field"
                              /\ out[k].items[1] = metas[k]
                              /\ out[k].items[2] = types[k].v

\* two fields whose types differ
FieldGroupArityWitness ==
    /\ doc.type = "field_group"
    /\ \E i \in DOMAIN calls :
           /\ calls[i].ok
           /\ Len(calls[i].v.items) = 2
           /\ calls[i].v.items[1].items[2] # calls[i].v.items[2].items[2]

\* the names of the FieldMeta entries call i returned
NamesOf(i) == [k \in DOMAIN calls[i].v.items |-> calls[i].v.items[k].items[1]]

(***************************************************************************)
(* C25  MetaGroup naming: in every MetaGroup output all FieldMeta names    *)
(* are g + "_" + s for the one group name g that the invocation drew, s    *)
(* being a value the field_name generator returned; g was not in           *)
(* RandState.seen before the invocation and is in it afterwards; the names *)
(* are pairwise distinct within the output; the output length lies within  *)
(* n_range.                                                                *)
(***************************************************************************)
MetaGroupNaming ==
    doc.type = "meta_group" =>
        \A i \in DOMAIN calls :
            calls[i].ok =>
                LET names == NamesOf(i)
                    group == EventsAt(i, "uret", <<1>>)
                    suffixes == EventsAt(i, "ret", <<2, 1>>)
                IN  /\ Len(group) = 1
                    /\ group[1].v \notin calls[i].seen0
                    /\ group[1].v \in group[1].post
                    /\ i = Len(calls) => group[1].v \in sets[1]
                    /\ \A k \in DOMAIN names :
                           \E x \in DOMAIN suffixes :
                               names[k] = VStr(group[1].v.s \o "_" \o suffixes[x].v.s)
                    /\ Injective(names)
                    /\ pres.node.n_range[1] <= Len(names)
                    /\ Len(names) <= pres.node.n_range[2]

\* the second output of one generator: two names under a group name other
\* than that of the first output
MetaGroupNamingWitness ==
    /\ doc.type = "meta_group"
    /\ Len(calls) = 2
    /\ calls[1].ok /\ calls[2].ok
    /\ Len(NamesOf(2)) = 2
    /\ calls[2].seen0 # {}

(***************************************************************************)
(* Reading a TableResource.                                                *)
(***************************************************************************)
SchemaOf(v) == v.items[3]
RowsOf(v) == v.items[4].items
FieldsOf(schema) == schema.items[1].items
KeysOf(row) == {row.items[k].items[1].s : k \in DOMAIN row.items}

\* row[name]
CellOf(row, name) ==
    row.items[CHOOSE k \in DOMAIN row.items : row.items[k].items[1].s = name].items[2].s

\* int(s), and float(s) in halves
int_of(s) == CHOOSE n \in (0 - MaxSize) .. MaxSize : str_int(n) = s
float_of(s) == CHOOSE h \in (0 - 2 * MaxSize) .. (2 * MaxSize) : str_float(h) = s

\* the value of a cell of a column of type T, in halves
ParsedBack(s, T) == IF T.t = "IntegerFieldType" THEN 2 * int_of(s) ELSE float_of(s)

(***************************************************************************)
(* C22  Table shape: every TableResource returned has exactly              *)
(* schema.n_rows rows, generated from the schema it stores, which is the   *)
(* one its schema generator returned; the key set of every row is the set  *)
(* of the schema's field names, one entry per field.                       *)
(***************************************************************************)
TableShape ==
    \A i \in DOMAIN calls :
        (calls[i].ok /\ calls[i].v.t = "TableResource") =>
            LET schema == SchemaOf(calls[i].v)
                rows == RowsOf(calls[i].v)
                names == FieldNames(schema)
            IN  /\ schema = LastReturn(i, <<3>>)
                /\ Len(rows) = schema.items[2].n
                /\ \A r \in DOMAIN rows :
                       /\ KeysOf(rows[r]) = {names[k] : k \in DOMAIN names}
                       /\ Len(rows[r].items) = Len(names)

(***************************************************************************)
(* C23  Numeric cells honour the declared range: every cell of an Integer  *)
(* or Number column, parsed back to a number, is >= the column's minimum   *)
(* when one is declared and <= its maximum when one is declared.           *)
(***************************************************************************)
NumericCellsInRange ==
    \A i \in DOMAIN calls :
        (calls[i].ok /\ calls[i].v.t = "TableResource") =>
            LET fields == FieldsOf(SchemaOf(calls[i].v))
                rows == RowsOf(calls[i].v)
            IN  \A k \in DOMAIN fields, r \in DOMAIN rows :
                    LET T == fields[k].items[2]
                        x == ParsedBack(CellOf(rows[r], fields[k].items[1].items[1].s), T)
                    IN  T.t \in {"IntegerFieldType", "NumberFieldType"} =>
                            /\ T.items[3] # VNone => x >= 2 * T.items[3].n
                            /\ T.items[4] # VNone => x <= 2 * T.items[4].n

(***************************************************************************)
(* C28  Enum cell coverage: a cell of an enum column is made by one        *)
(* constant generator per level, picked by rnd.choice, so the cell is the  *)
(* value (as a str) of the level the draw picked, and every level is       *)
(* reachable.                                                              *)
(***************************************************************************)
EnumCellsPicked ==
    \A i \in DOMAIN calls :
        \A x \in DOMAIN calls[i].ev :
            LET e == calls[i].ev[x]
            IN  e.e = "pick" =>
                    LET levels == FieldsOf(LastReturn(i, <<3>>))[e.p[3]].items[2].items[1].items
                    IN  /\ \E n \in DOMAIN levels : e.v.s = str_of(LevelValue(levels[n]))
                        /\ e.v.s = str_of(LevelValue(levels[e.n]))

====
